---- MODULE Spec2Model ----
(***************************************************************************)
(* Model of the social quote generator (src/app/page.tsx, the component    *)
(* Home starting at line 1473): the quote inputs, the batch generation     *)
(* (generateAllQuotes / processQuoteInput) and the renderer                *)
(* drawQuoteOnCanvas with its helpers.                                     *)
(*                                                                         *)
(* Strings are sequences of one-character strings.  JavaScript numbers    *)
(* that are not integers are exact rationals [n |-> _, d |-> _], d > 0.    *)
(***************************************************************************)
EXTENDS Integers, Sequences, FiniteSets, TLC

\* ------------------------------------------------------------ bounds
\* Image width and height range over 1..MaxDim.
MaxDim == 9
\* Quote texts have at most MaxTextLen characters.
MaxTextLen == 5
\* Highlighted words and words handed to normalizeWord have at most MaxWordLen
\* characters.
MaxWordLen == 2

\* ------------------------------------------------- program constants
CanvasWidth == 1080
CanvasHeight == 1350
maxWidth == 900
DefaultFontSize == 70

\* --------------------------------------------------------- rationals
R(n, d) == [n |-> n, d |-> d]

RInt(i) == R(i, 1)

RLess(a, b) == a.n * b.d < b.n * a.d

RLeq(a, b) == a.n * b.d <= b.n * a.d

REq(a, b) == a.n * b.d = b.n * a.d

RMul(a, b) == R(a.n * b.n, a.d * b.d)

\* a / b for b > 0
RDiv(a, b) == R(a.n * b.d, a.d * b.n)

RSub(a, b) == R(a.n * b.d - b.n * a.d, a.d * b.d)

RHalf(a) == R(a.n, 2 * a.d)

RAdd(a, b) == R(a.n * b.d + b.n * a.d, a.d * b.d)

\* ------------------------------------------------------------ optional values
\* An optional field (cropData?, fontSize?, gradientStart?) is << >> when
\* undefined and <<v>> when it carries v.
Undefined == << >>

Some(v) == <<v>>

IsDefined(o) == o # << >>

\* ------------------------------------------------------------ characters
LowerCase == {"a", "b"}

UpperCase == {"A", "B"}

\* \s of a JavaScript regular expression, and what trim() removes
WhiteSpace == {" ", "\n"}

\* \w of a JavaScript regular expression: ASCII letters, digits, underscore
WordChars == LowerCase \cup UpperCase \cup {"7", "_"}

\* characters that are neither \w nor \s
Punctuation == {"'", ","}

toUpperCaseChar(c) ==
  CASE c = "a" -> "A"
    [] c = "b" -> "B"
    [] OTHER -> c

toLowerCaseChar(c) ==
  CASE c = "A" -> "a"
    [] c = "B" -> "b"
    [] OTHER -> c

toUpperCase(s) == [i \in 1..Len(s) |-> toUpperCaseChar(s[i])]

\* All strings over the alphabet S with at most n characters.
StringsOver(S, n) == UNION {[1..k -> S] : k \in 0..n}

\* String.prototype.trim
RECURSIVE trimStart(_)
trimStart(s) ==
  IF s # << >> /\ Head(s) \in WhiteSpace THEN trimStart(Tail(s)) ELSE s

RECURSIVE trimEnd(_)
trimEnd(s) ==
  IF s # << >> /\ s[Len(s)] \in WhiteSpace
  THEN trimEnd(SubSeq(s, 1, Len(s) - 1))
  ELSE s

trim(s) == trimEnd(trimStart(s))

\* s.split(' '): the pieces between single space characters, empty pieces kept
RECURSIVE splitOnSpace(_)
splitOnSpace(s) ==
  IF \A i \in 1..Len(s) : s[i] # " "
  THEN <<s>>
  ELSE LET i == CHOOSE j \in 1..Len(s) :
                  s[j] = " " /\ \A k \in 1..(j - 1) : s[k] # " "
       IN <<SubSeq(s, 1, i - 1)>> \o splitOnSpace(SubSeq(s, i + 1, Len(s)))

\* s.split(/\s+/).filter(word => word.trim().length > 0)
RECURSIVE splitOnWhiteSpace(_)
splitOnWhiteSpace(s) ==
  IF s = << >> THEN << >>
  ELSE IF Head(s) \in WhiteSpace THEN splitOnWhiteSpace(Tail(s))
  ELSE LET stops == {j \in 1..Len(s) : s[j] \in WhiteSpace}
           e == IF stops = {} THEN Len(s) + 1
                ELSE CHOOSE j \in stops : \A k \in stops : j <= k
       IN <<SubSeq(s, 1, e - 1)>> \o splitOnWhiteSpace(SubSeq(s, e, Len(s)))

\* ------------------------------------------------------------ cover crop
\* The fallback branch of the background draw (no cropData): the image is
\* scaled to cover the canvas and centred.  guardWidth / guardHeight record
\* whether the two "ensure minimum size" branches ran.
CoverCropContain(w, h) ==
  LET imgAspect == R(w, h)
      canvasAspect == R(CanvasWidth, CanvasHeight)
  IN IF RLess(imgAspect, canvasAspect)
     THEN LET drawWidth == RMul(RInt(CanvasHeight), imgAspect)
          IN [drawWidth |-> drawWidth, drawHeight |-> RInt(CanvasHeight),
              offsetX |-> RHalf(RSub(RInt(CanvasWidth), drawWidth)),
              offsetY |-> RInt(0), guardWidth |-> FALSE, guardHeight |-> FALSE]
     ELSE LET drawHeight == RDiv(RInt(CanvasWidth), imgAspect)
          IN [drawWidth |-> RInt(CanvasWidth), drawHeight |-> drawHeight,
              offsetX |-> RInt(0),
              offsetY |-> RHalf(RSub(RInt(CanvasHeight), drawHeight)),
              guardWidth |-> FALSE, guardHeight |-> FALSE]

CoverCropOffsetSign(w, h) ==
  LET imgAspect == R(w, h)
      canvasAspect == R(CanvasWidth, CanvasHeight)
  IN IF RLess(canvasAspect, imgAspect)
     THEN LET drawWidth == RMul(RInt(CanvasHeight), imgAspect)
          IN [drawWidth |-> drawWidth, drawHeight |-> RInt(CanvasHeight),
              offsetX |-> RHalf(RSub(drawWidth, RInt(CanvasWidth))),
              offsetY |-> RInt(0), guardWidth |-> FALSE, guardHeight |-> FALSE]
     ELSE LET drawHeight == RDiv(RInt(CanvasWidth), imgAspect)
          IN [drawWidth |-> RInt(CanvasWidth), drawHeight |-> drawHeight,
              offsetX |-> RInt(0),
              offsetY |-> RHalf(RSub(drawHeight, RInt(CanvasHeight))),
              guardWidth |-> FALSE, guardHeight |-> FALSE]

\* the cover crop whose first fit takes the other branch: it fits the image
\* inside the canvas and leaves the covering to the two guard branches
CoverCropFitInside(w, h) ==
  LET imgAspect == R(w, h)
      canvasAspect == R(CanvasWidth, CanvasHeight)
      fit ==
        IF RLess(imgAspect, canvasAspect)
        THEN [drawWidth |-> RMul(RInt(CanvasHeight), imgAspect),
              drawHeight |-> RInt(CanvasHeight)]
        ELSE [drawWidth |-> RInt(CanvasWidth),
              drawHeight |-> RDiv(RInt(CanvasWidth), imgAspect)]
      guardWidth == RLess(fit.drawWidth, RInt(CanvasWidth))
      afterWidth ==
        IF guardWidth
        THEN [drawWidth |-> RInt(CanvasWidth),
              drawHeight |-> RDiv(RInt(CanvasWidth), imgAspect)]
        ELSE fit
      guardHeight == RLess(afterWidth.drawHeight, RInt(CanvasHeight))
      afterHeight ==
        IF guardHeight
        THEN [drawWidth |-> RMul(RInt(CanvasHeight), imgAspect),
              drawHeight |-> RInt(CanvasHeight)]
        ELSE afterWidth
  IN [drawWidth |-> afterHeight.drawWidth, drawHeight |-> afterHeight.drawHeight,
      offsetX |-> RHalf(RSub(RInt(CanvasWidth), afterHeight.drawWidth)),
      offsetY |-> RHalf(RSub(RInt(CanvasHeight), afterHeight.drawHeight)),
      guardWidth |-> guardWidth, guardHeight |-> guardHeight]

CoverCrop(w, h) ==
  LET imgAspect == R(w, h)
      canvasAspect == R(CanvasWidth, CanvasHeight)
      fit ==
        IF RLess(canvasAspect, imgAspect)
        THEN LET drawHeight == RInt(CanvasHeight)
                 drawWidth == RMul(drawHeight, imgAspect)
             IN [drawWidth |-> drawWidth, drawHeight |-> drawHeight,
                 offsetX |-> RHalf(RSub(RInt(CanvasWidth), drawWidth)),
                 offsetY |-> RInt(0)]
        ELSE LET drawWidth == RInt(CanvasWidth)
                 drawHeight == RDiv(drawWidth, imgAspect)
             IN [drawWidth |-> drawWidth, drawHeight |-> drawHeight,
                 offsetX |-> RInt(0),
                 offsetY |-> RHalf(RSub(RInt(CanvasHeight), drawHeight))]
      guardWidth == RLess(fit.drawWidth, RInt(CanvasWidth))
      afterWidth ==
        IF guardWidth
        THEN LET drawWidth == RInt(CanvasWidth)
                 drawHeight == RDiv(drawWidth, imgAspect)
             IN [drawWidth |-> drawWidth, drawHeight |-> drawHeight,
                 offsetX |-> RInt(0),
                 offsetY |-> RHalf(RSub(RInt(CanvasHeight), drawHeight))]
        ELSE fit
      guardHeight == RLess(afterWidth.drawHeight, RInt(CanvasHeight))
      afterHeight ==
        IF guardHeight
        THEN LET drawHeight == RInt(CanvasHeight)
                 drawWidth == RMul(drawHeight, imgAspect)
             IN [drawWidth |-> drawWidth, drawHeight |-> drawHeight,
                 offsetX |-> RHalf(RSub(RInt(CanvasWidth), drawWidth)),
                 offsetY |-> RInt(0)]
        ELSE afterWidth
  IN [drawWidth |-> afterHeight.drawWidth, drawHeight |-> afterHeight.drawHeight,
      offsetX |-> afterHeight.offsetX, offsetY |-> afterHeight.offsetY,
      guardWidth |-> guardWidth, guardHeight |-> guardHeight]

\* ctx.drawImage of the background: the nine-argument form with the smart
\* crop rectangle as source, or the five-argument form with the cover crop.
drawBackground(quote) ==
  IF IsDefined(quote.cropData)
  THEN [mode |-> "smartcrop", source |-> quote.cropData,
        offsetX |-> RInt(0), offsetY |-> RInt(0),
        drawWidth |-> RInt(CanvasWidth), drawHeight |-> RInt(CanvasHeight),
        guardWidth |-> FALSE, guardHeight |-> FALSE]
  ELSE LET c == CoverCrop(quote.image.width, quote.image.height)
       IN [mode |-> "cover", source |-> Undefined,
           offsetX |-> c.offsetX, offsetY |-> c.offsetY,
           drawWidth |-> c.drawWidth, drawHeight |-> c.drawHeight,
           guardWidth |-> c.guardWidth, guardHeight |-> c.guardHeight]

\* ------------------------------------------------------------ gradient
\* gradientStart and the stop offsets are in hundredths (50 is 0.5), the
\* alphas too (85 is rgba(0, 0, 0, 0.85)).
DefaultGradientStart == 50

DarkAlpha == 85

gradientStartPosition(quote) ==
  IF IsDefined(quote.gradientStart) THEN quote.gradientStart[1]
  ELSE DefaultGradientStart

\* the addColorStop calls, in call order
GradientStopsSwapped(textPosition, start) ==
  IF textPosition = "top"
  THEN << [offset |-> 0, alpha |-> 0],
          [offset |-> start, alpha |-> 0],
          [offset |-> 100, alpha |-> DarkAlpha] >>
  ELSE << [offset |-> 0, alpha |-> DarkAlpha],
          [offset |-> start, alpha |-> 0],
          [offset |-> 100, alpha |-> 0] >>

GradientStops(textPosition, start) ==
  IF textPosition = "top"
  THEN << [offset |-> 0, alpha |-> DarkAlpha],
          [offset |-> start, alpha |-> 0],
          [offset |-> 100, alpha |-> 0] >>
  ELSE << [offset |-> 0, alpha |-> 0],
          [offset |-> start, alpha |-> 0],
          [offset |-> 100, alpha |-> DarkAlpha] >>

\* gradient.addColorStop(offset, color) throws an IndexSizeError when the
\* offset is outside [0, 1]
ValidOffset(offset) == 0 <= offset /\ offset <= 100

\* ------------------------------------------------------------ text layout
\* ctx.measureText(s).width for the bold body font: the sum of the advances
\* of the characters; glyph gives the advance of a white-space character and
\* of every other character (they depend on the font and the font size).
RECURSIVE measureText(_, _)
measureText(s, glyph) ==
  IF s = << >> THEN 0
  ELSE (IF Head(s) \in WhiteSpace THEN glyph.space ELSE glyph.letter)
       + measureText(Tail(s), glyph)

\* words.forEach of the wrap loop followed by the final push; lines and
\* currentLine are the loop's two variables.
RECURSIVE wrapLoop(_, _, _, _)
wrapLoop(words, lines, currentLine, glyph) ==
  IF words = << >>
  THEN IF currentLine # << >> THEN Append(lines, trim(currentLine)) ELSE lines
  ELSE LET word == Head(words)
           testLine == currentLine \o word \o <<" ">>
       IN IF measureText(testLine, glyph) > maxWidth /\ currentLine # << >>
          THEN wrapLoop(Tail(words), Append(lines, trim(currentLine)),
                        word \o <<" ">>, glyph)
          ELSE wrapLoop(Tail(words), lines, testLine, glyph)

\* the wrap loop that forgets the word that did not fit
RECURSIVE wrapLoopDropping(_, _, _, _)
wrapLoopDropping(words, lines, currentLine, glyph) ==
  IF words = << >>
  THEN IF currentLine # << >> THEN Append(lines, trim(currentLine)) ELSE lines
  ELSE LET word == Head(words)
           testLine == currentLine \o word \o <<" ">>
       IN IF measureText(testLine, glyph) > maxWidth /\ currentLine # << >>
          THEN wrapLoopDropping(Tail(words), Append(lines, trim(currentLine)),
                                << >>, glyph)
          ELSE wrapLoopDropping(Tail(words), lines, testLine, glyph)

layoutLinesDropping(text, glyph) ==
  wrapLoopDropping(splitOnSpace(toUpperCase(text)), << >>, << >>, glyph)

\* the wrap loop with the final push guarded by the trimmed buffer
layoutLinesSkippingEmpty(text, glyph) ==
  LET lines == wrapLoop(splitOnSpace(toUpperCase(text)), << >>, << >>, glyph)
  IN SelectSeq(lines, LAMBDA l : l # << >>)

\* the wrap loop that breaks after the word that did not fit
RECURSIVE wrapLoopBreakingAfter(_, _, _, _)
wrapLoopBreakingAfter(words, lines, currentLine, glyph) ==
  IF words = << >>
  THEN IF currentLine # << >> THEN Append(lines, trim(currentLine)) ELSE lines
  ELSE LET word == Head(words)
           testLine == currentLine \o word \o <<" ">>
       IN IF measureText(testLine, glyph) > maxWidth /\ currentLine # << >>
          THEN wrapLoopBreakingAfter(Tail(words), Append(lines, trim(testLine)),
                                     << >>, glyph)
          ELSE wrapLoopBreakingAfter(Tail(words), lines, testLine, glyph)

layoutLinesBreakingAfter(text, glyph) ==
  wrapLoopBreakingAfter(splitOnSpace(toUpperCase(text)), << >>, << >>, glyph)

\* the wrap loop that breaks before every word, whether it fits or not
RECURSIVE wrapLoopAlwaysBreaking(_, _, _, _)
wrapLoopAlwaysBreaking(words, lines, currentLine, glyph) ==
  IF words = << >>
  THEN IF currentLine # << >> THEN Append(lines, trim(currentLine)) ELSE lines
  ELSE LET word == Head(words)
       IN IF currentLine # << >>
          THEN wrapLoopAlwaysBreaking(Tail(words), Append(lines, trim(currentLine)),
                                      word \o <<" ">>, glyph)
          ELSE wrapLoopAlwaysBreaking(Tail(words), lines, word \o <<" ">>, glyph)

layoutLinesAlwaysBreaking(text, glyph) ==
  wrapLoopAlwaysBreaking(splitOnSpace(toUpperCase(text)), << >>, << >>, glyph)

\* the wrap loop with the canvas width as its budget
RECURSIVE wrapLoopCanvasWide(_, _, _, _)
wrapLoopCanvasWide(words, lines, currentLine, glyph) ==
  IF words = << >>
  THEN IF currentLine # << >> THEN Append(lines, trim(currentLine)) ELSE lines
  ELSE LET word == Head(words)
           testLine == currentLine \o word \o <<" ">>
       IN IF measureText(testLine, glyph) > CanvasWidth /\ currentLine # << >>
          THEN wrapLoopCanvasWide(Tail(words), Append(lines, trim(currentLine)),
                                  word \o <<" ">>, glyph)
          ELSE wrapLoopCanvasWide(Tail(words), lines, testLine, glyph)

layoutLinesCanvasWide(text, glyph) ==
  wrapLoopCanvasWide(splitOnSpace(toUpperCase(text)), << >>, << >>, glyph)

\* the lines of the quote text: upper-cased, split on single spaces, wrapped
layoutLines(text, glyph) ==
  wrapLoop(splitOnSpace(toUpperCase(text)), << >>, << >>, glyph)

\* ------------------------------------------------------------ highlight
IsWordChar(c) == c \in WordChars

normalizeWordKeepingCase(word) == SelectSeq(trim(word), IsWordChar)

normalizeWordKeepingPunctuation(word) == toUpperCase(trim(word))

normalizeWord(word) ==
  IF word = << >> THEN << >>
  ELSE toUpperCase(SelectSeq(trim(word), IsWordChar))

\* shouldHighlight of the word loop, for one word of a line
shouldHighlightEqualOnly(lineWord, highlightedWord) ==
  normalizeWord(lineWord) = normalizeWord(trim(highlightedWord))

shouldHighlight(lineWord, highlightedWord) ==
  LET normalizedHighlightedWord ==
        IF highlightedWord # << >> THEN normalizeWord(trim(highlightedWord))
        ELSE << >>
      normalizedLineWord == normalizeWord(lineWord)
  IN /\ normalizedHighlightedWord # << >>
     /\ Len(normalizedHighlightedWord) > 0
     /\ Len(normalizedLineWord) > 0
     /\ normalizedLineWord = normalizedHighlightedWord

White == "#ffffff"

centerX == CanvasWidth \div 2

\* where the cursor of the word loop stands, relative to the start of the
\* line, when word k of lineWords is drawn: each word before it has advanced
\* the cursor by wordWidth + spaceWidth
RECURSIVE cursorBefore(_, _, _)
cursorBefore(lineWords, k, glyph) ==
  IF k <= 1 THEN 0
  ELSE cursorBefore(lineWords, k - 1, glyph)
       + measureText(lineWords[k - 1], glyph) + measureText(<<" ">>, glyph)

\* the word loop that advances the cursor by the word width only
RECURSIVE drawWordsWithoutSpaces(_, _, _, _, _, _, _)
drawWordsWithoutSpaces(lines, lineIndex, highlightedWord, color, startY, lineHeight, glyph) ==
  IF lineIndex > Len(lines) THEN << >>
  ELSE LET lineWords == splitOnWhiteSpace(lines[lineIndex])
           lineX == RSub(RInt(centerX),
                         RHalf(RInt(measureText(lines[lineIndex], glyph))))
       IN [k \in 1..Len(lineWords) |->
             [line |-> lineIndex, word |-> lineWords[k],
              fillStyle |-> IF shouldHighlight(lineWords[k], highlightedWord)
                            THEN color ELSE White,
              x |-> RAdd(lineX,
                         RInt(cursorBefore(lineWords, k, glyph)
                              - (k - 1) * measureText(<<" ">>, glyph))),
              y |-> RAdd(startY, RMul(RInt(lineIndex - 1), lineHeight)),
              width |-> measureText(lineWords[k], glyph)]]
          \o drawWordsWithoutSpaces(lines, lineIndex + 1, highlightedWord, color,
                                    startY, lineHeight, glyph)

\* the fillText calls of the word loop, in call order: line index, word,
\* colour, the x and y handed to fillText (textAlign left, textBaseline
\* middle) and the measured width of the word
RECURSIVE drawWords(_, _, _, _, _, _, _)
drawWords(lines, lineIndex, highlightedWord, color, startY, lineHeight, glyph) ==
  IF lineIndex > Len(lines) THEN << >>
  ELSE LET lineWords == splitOnWhiteSpace(lines[lineIndex])
           lineWidth == measureText(lines[lineIndex], glyph)
           lineX == RSub(RInt(centerX), RHalf(RInt(lineWidth)))
       IN [k \in 1..Len(lineWords) |->
             [line |-> lineIndex, word |-> lineWords[k],
              fillStyle |-> IF shouldHighlight(lineWords[k], highlightedWord)
                            THEN color ELSE White,
              x |-> RAdd(lineX, RInt(cursorBefore(lineWords, k, glyph))),
              y |-> RAdd(startY, RMul(RInt(lineIndex - 1), lineHeight)),
              width |-> measureText(lineWords[k], glyph)]]
          \o drawWords(lines, lineIndex + 1, highlightedWord, color,
                       startY, lineHeight, glyph)

\* ------------------------------------------------------------ renderer
\* What one call of drawQuoteOnCanvas puts on a canvas, with the global
\* style settings it reads.
\* the per-quote font size is never looked at
effectiveFontSizeGlobalOnly(quote, size) == size

\* quote.fontSize || fontSize
effectiveFontSize(quote, size) ==
  IF IsDefined(quote.fontSize) /\ quote.fontSize[1] # 0 THEN quote.fontSize[1]
  ELSE size

\* effectiveFontSize * 1.3
lineHeight(size) == R(13 * size, 10)

topPadding == 200

bottomPadding == 200

\* the y of the first line without the two paddings
startYUnpadded(textPosition, lineCount, size) ==
  IF textPosition = "top"
  THEN RHalf(lineHeight(size))
  ELSE RSub(RInt(CanvasHeight), RMul(RInt(lineCount), lineHeight(size)))

\* the y of the first line
startY(textPosition, lineCount, size) ==
  IF textPosition = "top"
  THEN RAdd(RInt(topPadding), RHalf(lineHeight(size)))
  ELSE RSub(RInt(CanvasHeight - bottomPadding),
            RMul(RInt(lineCount), lineHeight(size)))

FONT_OPTIONS ==
  [value \in {"Montserrat", "Playfair Display", "Oswald", "Raleway",
              "Bebas Neue", "Poppins", "Lato", "Roboto", "Inter", "Barlow",
              "Arial"} |->
     CASE value = "Montserrat" -> "\"Montserrat\", sans-serif"
       [] value = "Playfair Display" -> "\"Playfair Display\", serif"
       [] value = "Oswald" -> "\"Oswald\", sans-serif"
       [] value = "Raleway" -> "\"Raleway\", sans-serif"
       [] value = "Bebas Neue" -> "\"Bebas Neue\", sans-serif"
       [] value = "Poppins" -> "\"Poppins\", sans-serif"
       [] value = "Lato" -> "\"Lato\", sans-serif"
       [] value = "Roboto" -> "\"Roboto\", sans-serif"
       [] value = "Inter" -> "\"Inter\", sans-serif"
       [] value = "Barlow" -> "\"Barlow\", sans-serif"
       [] OTHER -> "Arial, sans-serif"]

\* fontOption ? fontOption.family : 'Arial, sans-serif'
fontFamily(font) ==
  IF font \in DOMAIN FONT_OPTIONS THEN FONT_OPTIONS[font] ELSE "Arial, sans-serif"

\* What the call leaves on the canvas when the second addColorStop throws:
\* the background, and nothing of the gradient or the text.
drawQuoteOnCanvasThrowing(quote) ==
  [drawn |-> TRUE,
   thrown |-> "IndexSizeError",
   fontSizePx |-> 0,
   fontFamily |-> "",
   background |-> drawBackground(quote),
   stops |-> SubSeq(GradientStops(quote.textPosition, gradientStartPosition(quote)),
                    1, 2),
   lines |-> << >>, lineHeight |-> RInt(0), startY |-> RInt(0),
   quoteMark |-> FALSE, words |-> << >>,
   caption |-> Undefined]

\* The lines are laid out once (drawn[lines] is what the call leaves on the
\* canvas given the lines of the wrap loop) and then positioned and drawn.
drawQuoteOnCanvas(quote, name, color, font, size, glyph) ==
  LET fontSizePx == effectiveFontSize(quote, size)
      drawn[lines \in {layoutLines(quote.text, glyph)}] ==
        LET firstY == startY(quote.textPosition, Len(lines), fontSizePx)
        IN [drawn |-> TRUE,
            thrown |-> "",
            fontSizePx |-> fontSizePx,
            fontFamily |-> fontFamily(font),
            background |-> drawBackground(quote),
            stops |-> GradientStops(quote.textPosition, gradientStartPosition(quote)),
            lines |-> lines,
            lineHeight |-> lineHeight(fontSizePx),
            startY |-> firstY,
            quoteMark |-> Len(lines) > 0,
            words |-> drawWords(lines, 1, quote.highlightedWord, color, firstY,
                                lineHeight(fontSizePx), glyph),
            caption |-> Some([text |-> toUpperCase(name), y |-> CanvasHeight - 100])]
  IN IF ~ValidOffset(gradientStartPosition(quote))
     THEN drawQuoteOnCanvasThrowing(quote)
     ELSE drawn[layoutLines(quote.text, glyph)]

\* a canvas nothing was drawn on
Blank ==
  [drawn |-> FALSE,
   thrown |-> "",
   fontSizePx |-> 0,
   fontFamily |-> "",
   background |-> [mode |-> "none", source |-> Undefined,
                   offsetX |-> RInt(0), offsetY |-> RInt(0),
                   drawWidth |-> RInt(0), drawHeight |-> RInt(0),
                   guardWidth |-> FALSE, guardHeight |-> FALSE],
   stops |-> << >>, lines |-> << >>, lineHeight |-> RInt(0), startY |-> RInt(0),
   quoteMark |-> FALSE, words |-> << >>,
   caption |-> Undefined]

\* ------------------------------------------------------------ state
VARIABLES
  artistName,       \* useState(''): the caption
  highlightColor,   \* useState('#FF8C00')
  selectedFont,     \* useState('Oswald')
  fontSize,         \* useState(70): the global font size
  quoteInputs,      \* useState<QuoteInput[]>
  generatedQuotes,  \* useState<GeneratedQuote[]>
  isGenerating,     \* useState(false)
  canvases,         \* what is drawn on the canvas of each generated quote
  run,              \* the generateAllQuotes call in flight, with its locals
  reads,            \* FileReader reads started by handleImageUpload, not yet loaded
  nextId,           \* the next value Date.now().toString() returns
  lastAlert,        \* the message of the alert() or confirm() of the user's last action, if any
  glyph,            \* the advances ctx.measureText uses for the body font
  word,             \* a word handed to normalizeWord
  variant,          \* a spelling variant of word
  normalized,       \* the normalizeWord results for word and variant
  localStorage,     \* window.localStorage: the item stored under each key, if any
  isInitialLoad,    \* useRef(true): isInitialLoad.current
  download,         \* the downloads in progress since the last "Download All"
  fileInputs        \* e.target.files[0] of the file input of each quote input that holds a file

vars ==
  <<artistName, highlightColor, selectedFont, fontSize, quoteInputs,
    generatedQuotes,
    isGenerating, canvases, run, reads, nextId, lastAlert, glyph,
    word, variant, normalized, localStorage, isInitialLoad, download, fileInputs>>

settingsVars == <<artistName, highlightColor, selectedFont, fontSize, glyph>>

normalizeVars == <<word, variant, normalized>>

storageVars == <<localStorage, isInitialLoad>>

Null == "null"

DefaultHighlightColor == "#FF8C00"

DefaultFont == "Oswald"

NoAlert == ""

NoValidInputAlert == "Please add at least one quote with both text and an image"

ClearConfirm == "Are you sure you want to clear all data and start fresh? This will remove all saved quotes and settings."

\* the image element an image URL decodes to
ImageOf(url) ==
  IF url = "data:wide"
  THEN [width |-> 2, height |-> 1, complete |-> TRUE]
  ELSE [width |-> 1, height |-> 2, complete |-> TRUE]

EmptyQuoteInput(id) ==
  [id |-> id, text |-> << >>, highlightedWord |-> << >>, imageUrl |-> Null,
   textPosition |-> "bottom", fontSize |-> Undefined,
   gradientStart |-> Undefined]

IdleRun ==
  [pc |-> "idle", validInputs |-> << >>, k |-> 0,
   newGeneratedQuotes |-> << >>, loaded |-> << >>, cropped |-> << >>]

\* The canvas ref callback and the redraw effect: every generated quote whose
\* canvas is mounted and whose image is complete is drawn with the current
\* settings.
RedrawMeasuring(quotes, name, color, font, size, advances) ==
  [i \in 1..Len(quotes) |->
     IF quotes[i].image.complete
     THEN drawQuoteOnCanvas(quotes[i], name, color, font, size, advances)
     ELSE Blank]

\* the redraw that draws over what the canvas holds, without clearing it
RedrawWithoutClearing(quotes, name, color, font, size) ==
  [i \in 1..Len(quotes) |->
     LET drawing == drawQuoteOnCanvas(quotes[i], name, color, font, size, glyph)
     IN IF i <= Len(canvases) /\ canvases[i].drawn
        THEN [drawing EXCEPT !.words = canvases[i].words \o drawing.words]
        ELSE drawing]

Redraw(quotes, name, color, font, size) ==
  RedrawMeasuring(quotes, name, color, font, size, glyph)

\* the advances of the body font the model lets the environment choose
Glyphs ==
  {[letter |-> 200, space |-> 100],
   [letter |-> 300, space |-> 150],
   [letter |-> 400, space |-> 100],
   [letter |-> 1000, space |-> 250]}

MediumGlyph == [letter |-> 400, space |-> 100]

TypeOK ==
  /\ isGenerating \in BOOLEAN
  /\ Len(canvases) = Len(generatedQuotes)
  /\ run.pc \in {"idle", "loading", "cropping", "done"}
  /\ glyph \in Glyphs
  /\ Len(quoteInputs) >= 1
  /\ reads \subseteq [quoteId : STRING, imageUrl : STRING]

\* ------------------------------------------------------------ localStorage
\* getItem gives null for a key nothing is stored under (Undefined here) and
\* the stored string otherwise
EmptyStorage ==
  [artistName |-> Undefined, highlightColor |-> Undefined,
   selectedFont |-> Undefined, fontSize |-> Undefined,
   quoteInputs |-> Undefined]

\* no file input holds a file
NoFiles == << >>

\* no download asked for
IdleDownload ==
  [scheduled |-> << >>, timers |-> << >>, called |-> << >>, blobs |-> {},
   files |-> << >>]

Digits == <<"0", "1", "2", "3", "4", "5", "6", "7", "8", "9">>

IsDigit(c) == \E d \in 1..10 : Digits[d] = c

DigitValue(c) == (CHOOSE d \in 1..10 : Digits[d] = c) - 1

\* size.toString() of a non-negative integer
RECURSIVE toString(_)
toString(n) ==
  IF n < 10 THEN <<Digits[n + 1]>>
  ELSE toString(n \div 10) \o <<Digits[(n % 10) + 1]>>

\* the value of the longest prefix of digits of s, read after acc
RECURSIVE parseDigits(_, _)
parseDigits(s, acc) ==
  IF s = << >> \/ ~IsDigit(Head(s)) THEN acc
  ELSE parseDigits(Tail(s), 10 * acc + DigitValue(Head(s)))

\* parseInt(s, 10): leading white space is skipped, a sign is read, then the
\* longest prefix of digits; NaN when there is no digit
parseInt(s) ==
  LET t == trimStart(s)
      negative == t # << >> /\ Head(t) = "-"
      u == IF t # << >> /\ Head(t) \in {"-", "+"} THEN Tail(t) ELSE t
  IN IF u = << >> \/ ~IsDigit(Head(u)) THEN [nan |-> TRUE, value |-> 0]
     ELSE [nan |-> FALSE,
           value |-> IF negative THEN 0 - parseDigits(u, 0) ELSE parseDigits(u, 0)]

NaN == "NaN"

OptionalFields == {"fontSize", "gradientStart"}

QuoteInputFields ==
  {"id", "text", "highlightedWord", "imageUrl", "textPosition"} \cup OptionalFields

\* JSON.stringify of a quote input: a property whose value is undefined is
\* left out, the others are written with their values
stringifyQuoteInput(q) ==
  [f \in {k \in DOMAIN q : k \notin OptionalFields \/ q[k] # Undefined} |->
     IF f \in OptionalFields THEN q[f][1] ELSE q[f]]

JSONstringify(inputs) ==
  [i \in 1..Len(inputs) |-> stringifyQuoteInput(inputs[i])]

\* JSON.parse of a stored quote input, as the page reads it: a property that
\* is not there reads as undefined
parseQuoteInput(o) ==
  [f \in QuoteInputFields |->
     IF f \notin DOMAIN o THEN Undefined
     ELSE IF f \in OptionalFields THEN Some(o[f]) ELSE o[f]]

JSONparse(json) == [i \in 1..Len(json) |-> parseQuoteInput(json[i])]

\* The save effect, which runs after every render that changed quoteInputs:
\* they are stored, but not during the initial load.
saveEffect ==
  /\ localStorage' =
       IF ~isInitialLoad /\ Len(quoteInputs') > 0
       THEN [localStorage EXCEPT !.quoteInputs = Some(JSONstringify(quoteInputs'))]
       ELSE localStorage
  /\ UNCHANGED isInitialLoad

\* ------------------------------------------------------------ the page
\* At most MaxInputs quote inputs and as many calls of addNewQuoteInput, at
\* most MaxReads file reads in flight.
MaxInputs == 2

MaxReads == 1

\* the values the user gives the fields of a quote input
InputUpdates == {<<"text", << >> >>, <<"text", <<"a">> >>}

\* the data URLs the uploaded files are read to
Urls == {"data:wide"}

\* the topCrop smartcrop reports for an image
TopCrop(image) ==
  [x |-> 0, y |-> 0, width |-> image.width, height |-> image.height]

Init ==
  /\ artistName = << >>
  /\ highlightColor = DefaultHighlightColor
  /\ selectedFont = DefaultFont
  /\ fontSize = DefaultFontSize
  /\ quoteInputs = <<EmptyQuoteInput("1")>>
  /\ generatedQuotes = << >>
  /\ isGenerating = FALSE
  /\ canvases = << >>
  /\ run = IdleRun
  /\ reads = {}
  /\ nextId = 2
  /\ lastAlert = NoAlert
  /\ glyph = MediumGlyph
  /\ word = << >>
  /\ variant = << >>
  /\ normalized = << >>
  /\ localStorage = EmptyStorage
  /\ isInitialLoad = FALSE
  /\ download = IdleDownload
  /\ fileInputs = NoFiles

HasId(quoteId) == \E i \in 1..Len(quoteInputs) : quoteInputs[i].id = quoteId

\* updateQuoteInput(quoteId, field, value)
updateQuoteInput(quoteId, field, value) ==
  /\ HasId(quoteId)
  /\ quoteInputs' =
       [i \in 1..Len(quoteInputs) |->
          IF quoteInputs[i].id = quoteId
          THEN [quoteInputs[i] EXCEPT ![field] = value]
          ELSE quoteInputs[i]]
  /\ lastAlert' = NoAlert
  /\ UNCHANGED <<generatedQuotes, isGenerating, canvases, run, reads, nextId>>
  /\ UNCHANGED settingsVars
  /\ UNCHANGED normalizeVars
  /\ saveEffect
  /\ UNCHANGED <<download, fileInputs>>

\* handleImageUpload for a file that needs no conversion: the read is started
handleImageUpload(quoteId, url) ==
  /\ HasId(quoteId)
  /\ Cardinality(reads) < MaxReads
  /\ reads' = reads \cup {[quoteId |-> quoteId, imageUrl |-> url]}
  /\ lastAlert' = NoAlert
  /\ UNCHANGED <<quoteInputs, generatedQuotes, isGenerating, canvases, run, nextId>>
  /\ UNCHANGED settingsVars
  /\ UNCHANGED normalizeVars
  /\ UNCHANGED storageVars
  /\ UNCHANGED <<download, fileInputs>>

\* reader.onload: the data URL is stored in the quote input with that id
readerOnload(r) ==
  /\ r \in reads
  /\ reads' = reads \ {r}
  /\ quoteInputs' =
       [i \in 1..Len(quoteInputs) |->
          IF quoteInputs[i].id = r.quoteId
          THEN [quoteInputs[i] EXCEPT !.imageUrl = r.imageUrl]
          ELSE quoteInputs[i]]
  /\ UNCHANGED <<generatedQuotes, isGenerating, canvases, run, nextId, lastAlert>>
  /\ UNCHANGED settingsVars
  /\ UNCHANGED normalizeVars
  /\ saveEffect
  /\ UNCHANGED <<download, fileInputs>>

addNewQuoteInput ==
  /\ Len(quoteInputs) < MaxInputs
  /\ nextId <= MaxInputs
  /\ quoteInputs' = Append(quoteInputs, EmptyQuoteInput(ToString(nextId)))
  /\ nextId' = nextId + 1
  /\ lastAlert' = NoAlert
  /\ UNCHANGED <<generatedQuotes, isGenerating, canvases, run, reads>>
  /\ UNCHANGED settingsVars
  /\ UNCHANGED normalizeVars
  /\ saveEffect
  /\ UNCHANGED <<download, fileInputs>>

\* removeQuoteInput without its test of quoteInputs.length
removeQuoteInputUnguarded(quoteId) ==
  /\ HasId(quoteId)
  /\ quoteInputs' = SelectSeq(quoteInputs, LAMBDA q : q.id # quoteId)
  /\ lastAlert' = NoAlert
  /\ UNCHANGED <<generatedQuotes, isGenerating, canvases, run, reads, nextId>>
  /\ UNCHANGED settingsVars
  /\ UNCHANGED normalizeVars
  /\ saveEffect
  /\ UNCHANGED <<download, fileInputs>>

\* removeQuoteInput(quoteId); the button is rendered when there are two inputs or more
removeQuoteInput(quoteId) ==
  /\ HasId(quoteId)
  /\ Len(quoteInputs) > 1
  /\ quoteInputs' = SelectSeq(quoteInputs, LAMBDA q : q.id # quoteId)
  /\ lastAlert' = NoAlert
  /\ UNCHANGED <<generatedQuotes, isGenerating, canvases, run, reads, nextId>>
  /\ UNCHANGED settingsVars
  /\ UNCHANGED normalizeVars
  /\ saveEffect
  /\ UNCHANGED <<download, fileInputs>>

\* ------------------------------------------------------------ generation
\* quoteInputs.filter(q => q.text && q.imageUrl)
IsValidInputTextOnly(q) == q.text # << >>

IsValidInput(q) == q.text # << >> /\ q.imageUrl # Null /\ q.imageUrl # ""

\* the GeneratedQuote processQuoteInput resolves with
GeneratedQuote(input, cropData) ==
  [id |-> input.id, text |-> input.text,
   highlightedWord |-> input.highlightedWord, imageUrl |-> input.imageUrl,
   image |-> ImageOf(input.imageUrl), textPosition |-> input.textPosition,
   fontSize |-> input.fontSize, gradientStart |-> input.gradientStart,
   cropData |-> cropData]

\* One iteration of the for loop of generateAllQuotes has ended, with the
\* quote pushed or the rejection caught: the next processQuoteInput starts,
\* or the loop is over and the result is stored and drawn.
ContinueLoopAbandoning(r) ==
  IF r.k < Len(r.validInputs) /\ Len(r.loaded) = Len(r.newGeneratedQuotes)
  THEN /\ run' = [r EXCEPT !.pc = "loading", !.k = r.k + 1]
       /\ UNCHANGED <<generatedQuotes, isGenerating, canvases>>
  ELSE /\ run' = [r EXCEPT !.pc = "done"]
       /\ generatedQuotes' = r.newGeneratedQuotes
       /\ isGenerating' = FALSE
       /\ canvases' = Redraw(r.newGeneratedQuotes, artistName, highlightColor, selectedFont, fontSize)

ContinueLoop(r) ==
  IF r.k < Len(r.validInputs)
  THEN /\ run' = [r EXCEPT !.pc = "loading", !.k = r.k + 1]
       /\ UNCHANGED <<generatedQuotes, isGenerating, canvases>>
  ELSE /\ run' = [r EXCEPT !.pc = "done"]
       /\ generatedQuotes' = r.newGeneratedQuotes
       /\ isGenerating' = FALSE
       /\ canvases' = Redraw(r.newGeneratedQuotes, artistName, highlightColor, selectedFont, fontSize)

\* the click on "Generate All Quotes" (disabled while isGenerating), up to
\* the first await
generateAllQuotes ==
  /\ ~isGenerating
  /\ LET validInputs == SelectSeq(quoteInputs, IsValidInput)
     IN IF Len(validInputs) = 0
        THEN /\ lastAlert' = NoValidInputAlert
             /\ UNCHANGED <<isGenerating, run>>
        ELSE /\ lastAlert' = NoAlert
             /\ isGenerating' = TRUE
             /\ run' = [pc |-> "loading", validInputs |-> validInputs, k |-> 1,
                        newGeneratedQuotes |-> << >>, loaded |-> << >>,
                        cropped |-> << >>]
  /\ UNCHANGED <<quoteInputs, generatedQuotes, canvases, reads, nextId>>
  /\ UNCHANGED settingsVars
  /\ UNCHANGED normalizeVars
  /\ UNCHANGED storageVars
  /\ UNCHANGED <<download, fileInputs>>

\* img.onload that hands the quote to the page before smartcrop has answered
imgOnloadPublishing ==
  /\ run.pc = "loading"
  /\ run' = [run EXCEPT !.pc = "cropping", !.loaded = Append(@, TRUE)]
  /\ generatedQuotes' =
       Append(run.newGeneratedQuotes,
              GeneratedQuote(run.validInputs[run.k], Undefined))
  /\ canvases' = Redraw(generatedQuotes', artistName, highlightColor,
                        selectedFont, fontSize)
  /\ UNCHANGED <<quoteInputs, isGenerating, reads, nextId, lastAlert>>
  /\ UNCHANGED settingsVars
  /\ UNCHANGED normalizeVars
  /\ UNCHANGED storageVars
  /\ UNCHANGED <<download, fileInputs>>

\* img.onload of processQuoteInput, up to the await of smartcrop.crop
imgOnload ==
  /\ run.pc = "loading"
  /\ run' = [run EXCEPT !.pc = "cropping", !.loaded = Append(@, TRUE)]
  /\ UNCHANGED <<quoteInputs, generatedQuotes, isGenerating, canvases, reads,
                 nextId, lastAlert>>
  /\ UNCHANGED settingsVars
  /\ UNCHANGED normalizeVars
  /\ UNCHANGED storageVars
  /\ UNCHANGED <<download, fileInputs>>

\* img.onerror that does not reject: the promise never settles
imgOnerrorSilent ==
  /\ run.pc = "loading"
  /\ run' = [run EXCEPT !.pc = "pending"]
  /\ UNCHANGED <<quoteInputs, generatedQuotes, isGenerating, canvases, reads,
                 nextId, lastAlert>>
  /\ UNCHANGED settingsVars
  /\ UNCHANGED normalizeVars
  /\ UNCHANGED storageVars
  /\ UNCHANGED <<download, fileInputs>>

\* img.onerror: the promise rejects, generateAllQuotes logs and goes on
imgOnerror ==
  /\ run.pc = "loading"
  /\ ContinueLoop([run EXCEPT !.loaded = Append(@, FALSE),
                             !.cropped = Append(@, FALSE)])
  /\ UNCHANGED <<quoteInputs, reads, nextId, lastAlert>>
  /\ UNCHANGED settingsVars
  /\ UNCHANGED normalizeVars
  /\ UNCHANGED storageVars
  /\ UNCHANGED <<download, fileInputs>>

\* smartcrop.crop resolves: the quote carries result.topCrop
smartcropResolved ==
  /\ run.pc = "cropping"
  /\ LET input == run.validInputs[run.k]
         quote == GeneratedQuote(input, Some(TopCrop(ImageOf(input.imageUrl))))
     IN ContinueLoop([run EXCEPT !.newGeneratedQuotes = Append(@, quote),
                                !.cropped = Append(@, TRUE)])
  /\ UNCHANGED <<quoteInputs, reads, nextId, lastAlert>>
  /\ UNCHANGED settingsVars
  /\ UNCHANGED normalizeVars
  /\ UNCHANGED storageVars
  /\ UNCHANGED <<download, fileInputs>>

\* smartcrop.crop rejects and the rejection reaches generateAllQuotes
smartcropRejectedUncaught ==
  /\ run.pc = "cropping"
  /\ ContinueLoop([run EXCEPT !.cropped = Append(@, FALSE)])
  /\ UNCHANGED <<quoteInputs, reads, nextId, lastAlert>>
  /\ UNCHANGED settingsVars
  /\ UNCHANGED normalizeVars
  /\ UNCHANGED storageVars
  /\ UNCHANGED <<download, fileInputs>>

\* smartcrop.crop rejects: the catch block resolves the quote without cropData
smartcropRejected ==
  /\ run.pc = "cropping"
  /\ LET input == run.validInputs[run.k]
         quote == GeneratedQuote(input, Undefined)
     IN ContinueLoop([run EXCEPT !.newGeneratedQuotes = Append(@, quote),
                                !.cropped = Append(@, FALSE)])
  /\ UNCHANGED <<quoteInputs, reads, nextId, lastAlert>>
  /\ UNCHANGED settingsVars
  /\ UNCHANGED normalizeVars
  /\ UNCHANGED storageVars
  /\ UNCHANGED <<download, fileInputs>>

Next ==
  \/ \E i \in 1..Len(quoteInputs), u \in InputUpdates :
       updateQuoteInput(quoteInputs[i].id, u[1], u[2])
  \/ \E i \in 1..Len(quoteInputs), url \in Urls :
       handleImageUpload(quoteInputs[i].id, url)
  \/ \E r \in reads : readerOnload(r)
  \/ addNewQuoteInput
  \/ \E i \in 1..Len(quoteInputs) : removeQuoteInput(quoteInputs[i].id)
  \/ generateAllQuotes
  \/ imgOnload
  \/ imgOnerror
  \/ smartcropResolved
  \/ smartcropRejected

Spec == Init /\ [][Next]_vars

\* ------------------------------------------------------------ the renderer alone
\* drawQuoteOnCanvas as a function of its quote: the page holds one generated
\* quote, drawn from a bounded set, whose canvas has just been mounted, and
\* the redraw effect runs.
RenderQuote(text, highlightedWord, textPosition, gradientStart, cropData, w, h) ==
  [id |-> "1", text |-> text, highlightedWord |-> highlightedWord,
   imageUrl |-> "data:image", image |-> [width |-> w, height |-> h, complete |-> TRUE],
   textPosition |-> textPosition, fontSize |-> Undefined,
   gradientStart |-> gradientStart, cropData |-> cropData]

RenderInit(quotes, glyphs) ==
  /\ artistName = <<"a">>
  /\ highlightColor = DefaultHighlightColor
  /\ selectedFont = DefaultFont
  /\ fontSize = DefaultFontSize
  /\ quoteInputs = <<EmptyQuoteInput("1")>>
  /\ generatedQuotes \in {<<q>> : q \in quotes}
  /\ isGenerating = FALSE
  /\ canvases = <<Blank>>
  /\ run = IdleRun
  /\ reads = {}
  /\ nextId = 2
  /\ lastAlert = NoAlert
  /\ glyph \in glyphs
  /\ word = << >>
  /\ variant = << >>
  /\ normalized = << >>
  /\ localStorage = EmptyStorage
  /\ isInitialLoad = FALSE
  /\ download = IdleDownload
  /\ fileInputs = NoFiles

\* useEffect(..., [generatedQuotes, artistName, highlightColor, selectedFont, fontSize])
redrawEffect ==
  /\ canvases' = Redraw(generatedQuotes, artistName, highlightColor, selectedFont, fontSize)
  /\ UNCHANGED <<quoteInputs, generatedQuotes, isGenerating, run, reads, nextId,
                 lastAlert>>
  /\ UNCHANGED settingsVars
  /\ UNCHANGED normalizeVars
  /\ UNCHANGED storageVars
  /\ UNCHANGED <<download, fileInputs>>

NextRender == redrawEffect

\* images of every size up to MaxDim x MaxDim, with and without smart crop data
CropQuotes ==
  {RenderQuote(<<"a">>, << >>, "bottom", Undefined, c, w, h) :
     c \in {Undefined, Some([x |-> 0, y |-> 0, width |-> 1, height |-> 1])},
     w \in 1..MaxDim, h \in 1..MaxDim}

InitCrop == RenderInit(CropQuotes, {MediumGlyph})

SpecCrop == InitCrop /\ [][NextRender]_vars

\* every gradient start the inputs can set (in hundredths), or none, both positions
GradientQuotes ==
  {RenderQuote(<<"a">>, << >>, p, g, Undefined, 4, 5) :
     p \in {"top", "bottom"}, g \in {Undefined} \cup {Some(v) : v \in 0..100}}

InitGradient == RenderInit(GradientQuotes, {MediumGlyph})

SpecGradient == InitGradient /\ [][NextRender]_vars

\* every quote text of at most MaxTextLen characters, under every glyph advance
TextChars == {"a", "b", " ", "\n"}

LayoutQuotes ==
  {RenderQuote(t, << >>, p, Undefined, Undefined, 4, 5) :
     t \in StringsOver(TextChars, MaxTextLen), p \in {"bottom"}}

InitLayout == RenderInit(LayoutQuotes, Glyphs)

SpecLayout == InitLayout /\ [][NextRender]_vars

\* quotes with and without overrides, among them overrides no input of the
\* page sets (a font size of 0, a gradient start below 0 and above 1), under
\* every global font size the inputs set at their ends and at the default
OverrideFontSizes == {Undefined, Some(0), Some(40), Some(70), Some(120)}

OverrideGradientStarts ==
  {Undefined, Some(0), Some(50), Some(100), Some(0 - 5), Some(150)}

OverrideQuotes ==
  {[RenderQuote(<<"a">>, << >>, p, g, Undefined, 4, 5) EXCEPT !.fontSize = f] :
     p \in {"top", "bottom"}, g \in OverrideGradientStarts,
     f \in OverrideFontSizes}

InitOverrides ==
  /\ artistName = <<"a">>
  /\ highlightColor = DefaultHighlightColor
  /\ selectedFont = DefaultFont
  /\ fontSize \in {40, DefaultFontSize, 120}
  /\ quoteInputs = <<EmptyQuoteInput("1")>>
  /\ generatedQuotes \in {<<q>> : q \in OverrideQuotes}
  /\ isGenerating = FALSE
  /\ canvases = <<Blank>>
  /\ run = IdleRun
  /\ reads = {}
  /\ nextId = 2
  /\ lastAlert = NoAlert
  /\ glyph = MediumGlyph
  /\ word = << >>
  /\ variant = << >>
  /\ normalized = << >>
  /\ localStorage = EmptyStorage
  /\ isInitialLoad = FALSE
  /\ download = IdleDownload
  /\ fileInputs = NoFiles

SpecOverrides == InitOverrides /\ [][NextRender]_vars

\* quotes of one to MaxLines lines (each word fills a line, so that a text
\* of n words wraps into n lines), at both text positions, under the global
\* font sizes of the ends, the default and one between
MaxLines == 9

RECURSIVE WordPerLine(_)
WordPerLine(n) ==
  IF n <= 1 THEN <<"a", "a">> ELSE WordPerLine(n - 1) \o <<" ", "a", "a">>

PositionQuotes ==
  {RenderQuote(WordPerLine(n), << >>, p, Undefined, Undefined, 4, 5) :
     n \in 1..MaxLines, p \in {"top", "bottom"}}

InitPosition ==
  /\ artistName = <<"a">>
  /\ highlightColor = DefaultHighlightColor
  /\ selectedFont = DefaultFont
  /\ fontSize \in {40, DefaultFontSize, 100, 120}
  /\ quoteInputs = <<EmptyQuoteInput("1")>>
  /\ generatedQuotes \in {<<q>> : q \in PositionQuotes}
  /\ isGenerating = FALSE
  /\ canvases = <<Blank>>
  /\ run = IdleRun
  /\ reads = {}
  /\ nextId = 2
  /\ lastAlert = NoAlert
  /\ glyph = MediumGlyph
  /\ word = << >>
  /\ variant = << >>
  /\ normalized = << >>
  /\ localStorage = EmptyStorage
  /\ isInitialLoad = FALSE
  /\ download = IdleDownload
  /\ fileInputs = NoFiles

SpecPosition == InitPosition /\ [][NextRender]_vars

\* short quote texts against every highlighted word of at most MaxWordLen characters
HighlightTextChars == {"a", "b", ",", " "}

HighlightWordChars == {"a", "A", "b", ",", " "}

HighlightQuotes ==
  {RenderQuote(t, hw, "bottom", Undefined, Undefined, 4, 5) :
     t \in StringsOver(HighlightTextChars, MaxWordLen + 1),
     hw \in StringsOver(HighlightWordChars, MaxWordLen)}

InitHighlight == RenderInit(HighlightQuotes, {MediumGlyph})

SpecHighlight == InitHighlight /\ [][NextRender]_vars

\* ------------------------------------------------------------ settings
\* The global settings, the per-quote font size, the reload of the page and
\* "Clear All & Start New".
\* what the user types in the artist name field
ArtistNames == {<< >>, <<"a">>}

\* what the colour picker gives, and what the user types in the colour field
PickerColors == {"#00ff00"}

TypedColors == {"", "#FF8C00", "#00ff00"}

\* the options of the font select the user picks
FontChoices == {"Oswald", "Arial"}

\* the values of a range input with min 40 and max 120
RangeValues == {toString(40), toString(70), toString(120)}

\* what the user types in a number field
TypedValues ==
  {<< >>, <<"5">>, toString(39), toString(40), toString(120), toString(121)}

\* at most MaxClears calls of clearAllAndStartNew
MaxClears == 1

handleArtistNameChange(name) ==
  /\ artistName' = name
  /\ localStorage' = [localStorage EXCEPT !.artistName = Some(name)]
  /\ canvases' = Redraw(generatedQuotes, name, highlightColor, selectedFont, fontSize)
  /\ lastAlert' = NoAlert
  /\ UNCHANGED <<highlightColor, selectedFont, fontSize, glyph, quoteInputs,
                 generatedQuotes, isGenerating, run, reads, nextId,
                 isInitialLoad, download, fileInputs>>
  /\ UNCHANGED normalizeVars

\* the handler that sets the colour and stores nothing
handleHighlightColorChangeUnsaved(color) ==
  /\ highlightColor' = color
  /\ canvases' = Redraw(generatedQuotes, artistName, color, selectedFont, fontSize)
  /\ lastAlert' = NoAlert
  /\ UNCHANGED <<artistName, selectedFont, fontSize, glyph, quoteInputs,
                 generatedQuotes, isGenerating, run, reads, nextId,
                 localStorage, isInitialLoad, download, fileInputs>>
  /\ UNCHANGED normalizeVars

handleHighlightColorChange(color) ==
  /\ highlightColor' = color
  /\ localStorage' = [localStorage EXCEPT !.highlightColor = Some(color)]
  /\ canvases' = Redraw(generatedQuotes, artistName, color, selectedFont, fontSize)
  /\ lastAlert' = NoAlert
  /\ UNCHANGED <<artistName, selectedFont, fontSize, glyph, quoteInputs,
                 generatedQuotes, isGenerating, run, reads, nextId,
                 isInitialLoad, download, fileInputs>>
  /\ UNCHANGED normalizeVars

\* the advances measureText may use after the body font or its size has
\* changed; nothing is measured while there is no quote to draw
AdvancesFor(quotes) == IF quotes = << >> THEN {glyph} ELSE Glyphs

\* the body font changes, and with it the advances measureText uses
handleFontChange(font) ==
  /\ selectedFont' = font
  /\ localStorage' = [localStorage EXCEPT !.selectedFont = Some(font)]
  /\ \E advances \in AdvancesFor(generatedQuotes) :
       /\ glyph' = advances
       /\ canvases' = RedrawMeasuring(generatedQuotes, artistName, highlightColor,
                                      font, fontSize, advances)
  /\ lastAlert' = NoAlert
  /\ UNCHANGED <<artistName, highlightColor, fontSize, quoteInputs,
                 generatedQuotes, isGenerating, run, reads, nextId,
                 isInitialLoad, download, fileInputs>>
  /\ UNCHANGED normalizeVars

handleFontSizeChange(size) ==
  /\ fontSize' = size
  /\ localStorage' = [localStorage EXCEPT !.fontSize = Some(toString(size))]
  /\ \E advances \in AdvancesFor(generatedQuotes) :
       /\ glyph' = advances
       /\ canvases' = RedrawMeasuring(generatedQuotes, artistName, highlightColor,
                                      selectedFont, size, advances)
  /\ lastAlert' = NoAlert
  /\ UNCHANGED <<artistName, highlightColor, selectedFont, quoteInputs,
                 generatedQuotes, isGenerating, run, reads, nextId,
                 isInitialLoad, download, fileInputs>>
  /\ UNCHANGED normalizeVars

\* a handler that ignores what was typed
ignoreInput ==
  /\ lastAlert' = NoAlert
  /\ UNCHANGED <<quoteInputs, generatedQuotes, isGenerating, canvases, run,
                 reads, nextId, download, fileInputs>>
  /\ UNCHANGED settingsVars
  /\ UNCHANGED storageVars
  /\ UNCHANGED normalizeVars

\* onChange of the global font size slider
fontSizeRangeChange(value) == handleFontSizeChange(parseInt(value).value)

\* the number field that hands every number typed to handleFontSizeChange
fontSizeNumberChangeUnguarded(value) ==
  LET val == parseInt(value)
  IN IF ~val.nan THEN handleFontSizeChange(val.value) ELSE ignoreInput

\* onChange of the global font size number field
fontSizeNumberChange(value) ==
  LET val == parseInt(value)
  IN IF ~val.nan /\ val.value >= 40 /\ val.value <= 120
     THEN handleFontSizeChange(val.value)
     ELSE ignoreInput

\* updateQuoteFontSize(quoteId, size), size undefined or a number
updateQuoteFontSize(quoteId, size) ==
  /\ HasId(quoteId)
  /\ quoteInputs' =
       [i \in 1..Len(quoteInputs) |->
          IF quoteInputs[i].id = quoteId
          THEN [quoteInputs[i] EXCEPT !.fontSize = size]
          ELSE quoteInputs[i]]
  /\ saveEffect
  /\ lastAlert' = NoAlert
  /\ UNCHANGED <<generatedQuotes, isGenerating, canvases, run, reads, nextId,
                 download, fileInputs>>
  /\ UNCHANGED settingsVars
  /\ UNCHANGED normalizeVars

\* onChange of the font size slider of a quote input
quoteFontSizeRangeChange(quoteId, value) ==
  LET val == parseInt(value).value
  IN updateQuoteFontSize(quoteId, IF val = fontSize THEN Undefined ELSE Some(val))

\* onChange of the font size number field of a quote input
quoteFontSizeNumberChange(quoteId, value) ==
  LET val == parseInt(value)
  IN IF ~val.nan /\ val.value >= 40 /\ val.value <= 120
     THEN updateQuoteFontSize(quoteId, IF val.value = fontSize THEN Undefined
                                       ELSE Some(val.value))
     ELSE ignoreInput

\* the timer of the mount effect, 100 ms after the mount
initialLoadTimeout ==
  /\ isInitialLoad
  /\ isInitialLoad' = FALSE
  /\ UNCHANGED <<quoteInputs, generatedQuotes, isGenerating, canvases, run,
                 reads, nextId, lastAlert, localStorage, download, fileInputs>>
  /\ UNCHANGED settingsVars
  /\ UNCHANGED normalizeVars

\* The page is loaded again: the state is that of useState, then the mount
\* effect sets what localStorage holds; a stored empty string is falsy and
\* is not set.
reload ==
  /\ artistName' =
       IF IsDefined(localStorage.artistName) /\ localStorage.artistName[1] # << >>
       THEN localStorage.artistName[1] ELSE << >>
  /\ highlightColor' =
       IF IsDefined(localStorage.highlightColor) /\ localStorage.highlightColor[1] # ""
       THEN localStorage.highlightColor[1] ELSE DefaultHighlightColor
  /\ selectedFont' =
       IF IsDefined(localStorage.selectedFont) /\ localStorage.selectedFont[1] # ""
       THEN localStorage.selectedFont[1] ELSE DefaultFont
  /\ fontSize' =
       IF IsDefined(localStorage.fontSize) /\ localStorage.fontSize[1] # << >>
       THEN IF parseInt(localStorage.fontSize[1]).nan THEN NaN
            ELSE parseInt(localStorage.fontSize[1]).value
       ELSE DefaultFontSize
  /\ quoteInputs' =
       IF IsDefined(localStorage.quoteInputs) /\ Len(localStorage.quoteInputs[1]) > 0
       THEN JSONparse(localStorage.quoteInputs[1])
       ELSE <<EmptyQuoteInput("1")>>
  /\ generatedQuotes' = << >>
  /\ canvases' = << >>
  /\ isGenerating' = FALSE
  /\ run' = IdleRun
  /\ reads' = {}
  /\ lastAlert' = NoAlert
  /\ isInitialLoad' = TRUE
  /\ download' = IdleDownload
  /\ fileInputs' = NoFiles
  /\ UNCHANGED <<nextId, glyph, localStorage>>
  /\ UNCHANGED normalizeVars

\* clearAllAndStartNew, the confirm accepted; the save effect stores the new
\* quote input after localStorage was cleared.  lastId is the last id the
\* clock of the model hands out.
clearAll(lastId) ==
  /\ nextId <= lastId
  /\ artistName' = << >>
  /\ highlightColor' = DefaultHighlightColor
  /\ selectedFont' = DefaultFont
  /\ fontSize' = DefaultFontSize
  /\ quoteInputs' = <<EmptyQuoteInput(ToString(nextId))>>
  /\ nextId' = nextId + 1
  /\ generatedQuotes' = << >>
  /\ canvases' = << >>
  /\ localStorage' =
       IF ~isInitialLoad
       THEN [EmptyStorage EXCEPT !.quoteInputs = Some(JSONstringify(quoteInputs'))]
       ELSE EmptyStorage
  /\ lastAlert' = ClearConfirm
  /\ UNCHANGED <<isGenerating, run, reads, glyph, isInitialLoad, download, fileInputs>>
  /\ UNCHANGED normalizeVars

\* on a page that started with one quote input
clearAllAndStartNew == clearAll(1 + MaxClears)

\* the page just loaded for the first time
InitSettings ==
  /\ artistName = << >>
  /\ highlightColor = DefaultHighlightColor
  /\ selectedFont = DefaultFont
  /\ fontSize = DefaultFontSize
  /\ quoteInputs = <<EmptyQuoteInput("1")>>
  /\ generatedQuotes = << >>
  /\ isGenerating = FALSE
  /\ canvases = << >>
  /\ run = IdleRun
  /\ reads = {}
  /\ nextId = 2
  /\ lastAlert = NoAlert
  /\ glyph = MediumGlyph
  /\ word = << >>
  /\ variant = << >>
  /\ normalized = << >>
  /\ localStorage = EmptyStorage
  /\ isInitialLoad = TRUE
  /\ download = IdleDownload
  /\ fileInputs = NoFiles

NextSettings ==
  \/ \E name \in ArtistNames : handleArtistNameChange(name)
  \/ \E color \in PickerColors \cup TypedColors : handleHighlightColorChange(color)
  \/ \E font \in FontChoices : handleFontChange(font)
  \/ \E value \in RangeValues : fontSizeRangeChange(value)
  \/ \E value \in TypedValues : fontSizeNumberChange(value)
  \/ \E i \in 1..Len(quoteInputs), value \in RangeValues :
       quoteFontSizeRangeChange(quoteInputs[i].id, value)
  \/ \E i \in 1..Len(quoteInputs), value \in TypedValues :
       quoteFontSizeNumberChange(quoteInputs[i].id, value)
  \/ initialLoadTimeout
  \/ reload
  \/ clearAllAndStartNew

SpecSettings == InitSettings /\ [][NextSettings]_vars

\* The quote inputs and their copy in localStorage: the page just loaded for
\* the first time, the inputs are edited, added and removed, everything is
\* cleared, and the page is loaded again at any moment.
InputIds == {ToString(n) : n \in 1..(MaxInputs + MaxClears)}

NextInputs ==
  \/ \E quoteId \in InputIds, u \in InputUpdates : updateQuoteInput(quoteId, u[1], u[2])
  \/ addNewQuoteInput
  \/ \E quoteId \in InputIds : removeQuoteInput(quoteId)
  \/ initialLoadTimeout
  \/ reload
  \/ clearAllAndStartNew

SpecInputs == InitSettings /\ [][NextInputs]_vars

\* Generation runs on a page whose quote inputs are filled in or not, with
\* "Clear All & Start New" (never disabled) clicked at any moment.
GenerateInputs ==
  UNION {{[i \in 1..n |->
             [EmptyQuoteInput(ToString(i)) EXCEPT !.text = f[i][1],
                                                  !.imageUrl = f[i][2]]] :
            f \in [1..n -> {<< >>, <<"a">>} \X ({Null} \cup Urls)]} :
         n \in 1..MaxInputs}

InitGenerate ==
  /\ artistName = << >>
  /\ highlightColor = DefaultHighlightColor
  /\ selectedFont = DefaultFont
  /\ fontSize = DefaultFontSize
  /\ quoteInputs \in GenerateInputs
  /\ generatedQuotes = << >>
  /\ isGenerating = FALSE
  /\ canvases = << >>
  /\ run = IdleRun
  /\ reads = {}
  /\ nextId = MaxInputs + 1
  /\ lastAlert = NoAlert
  /\ glyph = MediumGlyph
  /\ word = << >>
  /\ variant = << >>
  /\ normalized = << >>
  /\ localStorage = EmptyStorage
  /\ isInitialLoad = FALSE
  /\ download = IdleDownload
  /\ fileInputs = NoFiles

\* clearAllAndStartNew on a page that started with up to MaxInputs quote inputs
clearAllWhileGenerating == clearAll(MaxInputs + MaxClears)

settle ==
  \/ imgOnload
  \/ imgOnerror
  \/ smartcropResolved
  \/ smartcropRejected

NextGenerate ==
  \/ generateAllQuotes
  \/ settle
  \/ clearAllWhileGenerating

SpecGenerate == InitGenerate /\ [][NextGenerate]_vars

\* every image load fires onload or onerror and every smartcrop.crop call
\* settles
SpecGenerateFair == SpecGenerate /\ WF_vars(settle)

\* One generated quote on the page, drawn again and again while the global
\* settings change.
RedrawQuotes ==
  {RenderQuote(t, <<"a">>, p, Undefined, Undefined, 4, 5) :
     t \in {<<"a">>, <<"a", " ", "b">>}, p \in {"top", "bottom"}}

InitRedraw == RenderInit(RedrawQuotes, Glyphs)

NextRedraw ==
  \/ redrawEffect
  \/ \E name \in ArtistNames : handleArtistNameChange(name)
  \/ \E color \in PickerColors : handleHighlightColorChange(color)
  \/ \E font \in FontChoices : handleFontChange(font)
  \/ \E value \in RangeValues : fontSizeRangeChange(value)

SpecRedraw == InitRedraw /\ [][NextRedraw]_vars

\* ------------------------------------------------------------ uploads
\* handleImageUpload with its awaits: an upload in flight is a record of
\* reads with the locals of the call (quoteId, file, message, fileToRead)
\* and the await it stands at: "client" (heic2any), "server" (the fetch of
\* /api/convert and of its body) or "reading" (the FileReader).
\* At most MaxUploads uploads in flight.
MaxUploads == 2

\* the files the user selects: a JPEG, a HEIC photo whose type the browser
\* does not know, an HEIF photo
UploadFiles ==
  {[name |-> <<"a", ".", "j", "p", "g">>, type |-> "image/jpeg", content |-> "a"],
   [name |-> <<"b", ".", "H", "E", "I", "C">>, type |-> "", content |-> "b"],
   [name |-> <<"c", ".", "h", "e", "i", "f">>, type |-> "image/heif", content |-> "c"]}

\* the types /image\/(heic|heif|heic-sequence|heif-sequence)/ matches
HeicTypes ==
  {"image/heic", "image/heif", "image/heic-sequence", "image/heif-sequence"}

toLowerCaseLetter(c) ==
  CASE c = "H" -> "h"
    [] c = "E" -> "e"
    [] c = "I" -> "i"
    [] c = "C" -> "c"
    [] c = "F" -> "f"
    [] OTHER -> toLowerCaseChar(c)

\* /suffix$/.test(s)
endsWith(s, suffix) ==
  /\ Len(s) >= Len(suffix)
  /\ SubSeq(s, Len(s) - Len(suffix) + 1, Len(s)) = suffix

isHEIC(file) ==
  LET lowerName == [i \in 1..Len(file.name) |-> toLowerCaseLetter(file.name[i])]
  IN \/ file.type \in HeicTypes
     \/ endsWith(lowerName, <<".", "h", "e", "i", "c">>)
     \/ endsWith(lowerName, <<".", "h", "e", "i", "f">>)

\* the file handed to the FileReader: the file itself, or the JPEG heic2any
\* or the server (sharp) made of it
FileToRead(by, file) == [by |-> by, content |-> file.content]

\* event.target.result of readAsDataURL
readAsDataURL(fileToRead) == "data:" \o fileToRead.by \o ":" \o fileToRead.content

HeicAlert == "Failed to convert HEIC image."

selectFile(quoteId, file) ==
  [q \in DOMAIN fileInputs \cup {quoteId} |->
     IF q = quoteId THEN file ELSE fileInputs[q]]

\* handleImageUpload that asks the server first
handleImageUploadServerFirst(quoteId, file) ==
  /\ HasId(quoteId)
  /\ Cardinality(reads) < MaxUploads
  /\ ~\E u \in reads : u.quoteId = quoteId /\ u.file = file
  /\ fileInputs' = selectFile(quoteId, file)
  /\ reads' = reads \cup
       {[quoteId |-> quoteId, file |-> file,
         pc |-> IF isHEIC(file) THEN "server" ELSE "reading",
         message |-> Undefined, fileToRead |-> FileToRead("file", file)]}
  /\ lastAlert' = NoAlert
  /\ UNCHANGED <<quoteInputs, generatedQuotes, isGenerating, canvases, run, nextId>>
  /\ UNCHANGED settingsVars
  /\ UNCHANGED normalizeVars
  /\ UNCHANGED storageVars
  /\ UNCHANGED download

\* handleImageUpload(quoteId, e) with e.target.files[0] = file, up to its
\* first await (a HEIC file) or to reader.readAsDataURL (any other file)
handleImageUploadFile(quoteId, file) ==
  /\ HasId(quoteId)
  /\ Cardinality(reads) < MaxUploads
  /\ ~\E u \in reads : u.quoteId = quoteId /\ u.file = file
  /\ fileInputs' = selectFile(quoteId, file)
  /\ reads' = reads \cup
       {[quoteId |-> quoteId, file |-> file,
         pc |-> IF isHEIC(file) THEN "client" ELSE "reading",
         message |-> Undefined, fileToRead |-> FileToRead("file", file)]}
  /\ lastAlert' = NoAlert
  /\ UNCHANGED <<quoteInputs, generatedQuotes, isGenerating, canvases, run, nextId>>
  /\ UNCHANGED settingsVars
  /\ UNCHANGED normalizeVars
  /\ UNCHANGED storageVars
  /\ UNCHANGED download

\* the import of heic2any and its conversion resolve: the JPEG is read
heic2anyResolved(u) ==
  /\ u \in reads
  /\ u.pc = "client"
  /\ reads' = (reads \ {u}) \cup
       {[u EXCEPT !.pc = "reading", !.fileToRead = FileToRead("heic2any", u.file)]}
  /\ UNCHANGED <<quoteInputs, generatedQuotes, isGenerating, canvases, run,
                 nextId, lastAlert, fileInputs>>
  /\ UNCHANGED settingsVars
  /\ UNCHANGED normalizeVars
  /\ UNCHANGED storageVars
  /\ UNCHANGED download

\* the import or the conversion rejects: the message is kept and the file
\* is posted to /api/convert
heic2anyRejected(u) ==
  /\ u \in reads
  /\ u.pc = "client"
  /\ reads' = (reads \ {u}) \cup
       {[u EXCEPT !.pc = "server", !.message = Some("heic2any")]}
  /\ UNCHANGED <<quoteInputs, generatedQuotes, isGenerating, canvases, run,
                 nextId, lastAlert, fileInputs>>
  /\ UNCHANGED settingsVars
  /\ UNCHANGED normalizeVars
  /\ UNCHANGED storageVars
  /\ UNCHANGED download

\* POST of /api/convert: the status of its response
POST(hasFile, sharpConverts) ==
  IF ~hasFile THEN 400 ELSE IF sharpConverts THEN 200 ELSE 500

\* the upload is abandoned with the alert of the inner catch block
abandonUpload(u) ==
  /\ reads' = reads \ {u}
  /\ lastAlert' = HeicAlert
  /\ UNCHANGED <<quoteInputs, generatedQuotes, isGenerating, canvases, run,
                 nextId, fileInputs>>
  /\ UNCHANGED settingsVars
  /\ UNCHANGED normalizeVars
  /\ UNCHANGED storageVars
  /\ UNCHANGED download

\* the fetch of /api/convert resolves: with res.ok the JPEG of the body is
\* read, without it the handler throws into its catch block
fetchResolved(u, sharpConverts) ==
  /\ u \in reads
  /\ u.pc = "server"
  /\ IF POST(TRUE, sharpConverts) \in 200..299
     THEN /\ reads' = (reads \ {u}) \cup
               {[u EXCEPT !.pc = "reading", !.fileToRead = FileToRead("sharp", u.file)]}
          /\ UNCHANGED <<quoteInputs, generatedQuotes, isGenerating, canvases,
                         run, nextId, lastAlert, fileInputs>>
          /\ UNCHANGED settingsVars
          /\ UNCHANGED normalizeVars
          /\ UNCHANGED storageVars
          /\ UNCHANGED download
     ELSE abandonUpload(u)

\* the fetch rejects (no network)
fetchRejected(u) ==
  /\ u \in reads
  /\ u.pc = "server"
  /\ abandonUpload(u)

\* reader.onload of an upload: the data URL is stored in the quote input
\* with that id
readerOnloadFile(u) ==
  /\ u \in reads
  /\ u.pc = "reading"
  /\ reads' = reads \ {u}
  /\ quoteInputs' =
       [i \in 1..Len(quoteInputs) |->
          IF quoteInputs[i].id = u.quoteId
          THEN [quoteInputs[i] EXCEPT !.imageUrl = readAsDataURL(u.fileToRead)]
          ELSE quoteInputs[i]]
  /\ UNCHANGED <<generatedQuotes, isGenerating, canvases, run, nextId, lastAlert,
                 fileInputs>>
  /\ UNCHANGED settingsVars
  /\ UNCHANGED normalizeVars
  /\ saveEffect
  /\ UNCHANGED download

NextUpload ==
  \/ \E i \in 1..Len(quoteInputs), file \in UploadFiles :
       handleImageUploadFile(quoteInputs[i].id, file)
  \/ \E u \in reads : heic2anyResolved(u)
  \/ \E u \in reads : heic2anyRejected(u)
  \/ \E u \in reads, sharpConverts \in BOOLEAN : fetchResolved(u, sharpConverts)
  \/ \E u \in reads : fetchRejected(u)
  \/ \E u \in reads : readerOnloadFile(u)

SpecUpload == Init /\ [][NextUpload]_vars

\* ------------------------------------------------------------ downloads
\* "Download All": one timer per generated quote, index * 500 ms after the
\* click; each timer calls downloadImage, which asks the canvas for a blob;
\* the download is triggered when the blob is delivered.
\* At most MaxQuotes generated quotes on the page.
MaxQuotes == 3

\* `quote-${index}.png`
fileNameZeroBased(index) == "quote-" \o ToString(index) \o ".png"

\* `quote-${index + 1}.png`
fileName(index) == "quote-" \o ToString(index + 1) \o ".png"

\* canvasRefs.current[quoteId]: the canvas of a generated quote on the page
canvasRef(quoteId) ==
  \E i \in 1..Len(generatedQuotes) : generatedQuotes[i].id = quoteId

\* the click on "Download All", with no download of an earlier click pending
downloadAllImages ==
  /\ Len(generatedQuotes) > 0
  /\ download.timers = << >>
  /\ download.blobs = {}
  /\ download' =
       [scheduled |-> [i \in 1..Len(generatedQuotes) |-> generatedQuotes[i].id],
        timers |-> [i \in 1..Len(generatedQuotes) |->
                      [quoteId |-> generatedQuotes[i].id, index |-> i - 1]],
        called |-> << >>, blobs |-> {}, files |-> << >>]
  /\ lastAlert' = NoAlert
  /\ UNCHANGED <<quoteInputs, generatedQuotes, isGenerating, canvases, run,
                 reads, nextId>>
  /\ UNCHANGED settingsVars
  /\ UNCHANGED storageVars
  /\ UNCHANGED fileInputs
  /\ UNCHANGED normalizeVars

\* The next timer fires (they fire in the order of their delays) and calls
\* downloadImage(quoteId, index): without a canvas it returns, with one it
\* calls canvas.toBlob.
downloadTimer ==
  /\ download.timers # << >>
  /\ LET timer == Head(download.timers)
     IN download' =
          [download EXCEPT
             !.timers = Tail(@),
             !.called = Append(@, timer.index),
             !.blobs = IF canvasRef(timer.quoteId) THEN @ \cup {timer.index} ELSE @]
  /\ UNCHANGED <<quoteInputs, generatedQuotes, isGenerating, canvases, run,
                 reads, nextId, lastAlert>>
  /\ UNCHANGED settingsVars
  /\ UNCHANGED storageVars
  /\ UNCHANGED fileInputs
  /\ UNCHANGED normalizeVars

\* the callback of canvas.toBlob, with the blob: the link is clicked
toBlobCallback(index) ==
  /\ index \in download.blobs
  /\ download' = [download EXCEPT !.blobs = @ \ {index},
                                  !.files = Append(@, fileName(index))]
  /\ UNCHANGED <<quoteInputs, generatedQuotes, isGenerating, canvases, run,
                 reads, nextId, lastAlert>>
  /\ UNCHANGED settingsVars
  /\ UNCHANGED storageVars
  /\ UNCHANGED fileInputs
  /\ UNCHANGED normalizeVars

\* from one to MaxQuotes generated quotes on the page, drawn
DownloadQuote(id, text) ==
  [RenderQuote(text, << >>, "bottom", Undefined, Undefined, 4, 5) EXCEPT !.id = id]

DownloadBatches ==
  UNION {{[i \in 1..n |-> DownloadQuote(ToString(i), texts[i])] :
            texts \in [1..n -> {<<"a">>, <<"b">>}]} : n \in 1..MaxQuotes}

InitDownload ==
  /\ artistName = <<"a">>
  /\ highlightColor = DefaultHighlightColor
  /\ selectedFont = DefaultFont
  /\ fontSize = DefaultFontSize
  /\ quoteInputs = <<EmptyQuoteInput("1")>>
  /\ generatedQuotes \in DownloadBatches
  /\ isGenerating = FALSE
  /\ glyph = MediumGlyph
  /\ canvases = RedrawMeasuring(generatedQuotes, artistName, highlightColor,
                                selectedFont, fontSize, MediumGlyph)
  /\ run = IdleRun
  /\ reads = {}
  /\ nextId = 2
  /\ lastAlert = NoAlert
  /\ word = << >>
  /\ variant = << >>
  /\ normalized = << >>
  /\ localStorage = EmptyStorage
  /\ isInitialLoad = FALSE
  /\ download = IdleDownload
  /\ fileInputs = NoFiles

NextDownload ==
  \/ downloadAllImages
  \/ downloadTimer
  \/ \E index \in download.blobs : toBlobCallback(index)
  \/ clearAllAndStartNew

SpecDownload == InitDownload /\ [][NextDownload]_vars

\* ------------------------------------------------------------ normalizeWord alone
\* A word and a spelling variant of it: the variant is reached from the word
\* by changing the case of a letter and by inserting or deleting a character
\* that is not a letter, a digit or an underscore (white space included).
NormalizeChars == {"a", "A", "b", "'", " "}

IgnoredChars == {"'", ",", " "}

InitNormalize ==
  /\ artistName = << >>
  /\ highlightColor = DefaultHighlightColor
  /\ selectedFont = DefaultFont
  /\ fontSize = DefaultFontSize
  /\ quoteInputs = <<EmptyQuoteInput("1")>>
  /\ generatedQuotes = << >>
  /\ isGenerating = FALSE
  /\ canvases = << >>
  /\ run = IdleRun
  /\ reads = {}
  /\ nextId = 2
  /\ lastAlert = NoAlert
  /\ glyph = MediumGlyph
  /\ word \in StringsOver(NormalizeChars, MaxWordLen)
  /\ variant = word
  /\ normalized = << >>
  /\ localStorage = EmptyStorage
  /\ isInitialLoad = FALSE
  /\ download = IdleDownload
  /\ fileInputs = NoFiles

pageVars ==
  <<artistName, highlightColor, selectedFont, fontSize, quoteInputs,
    generatedQuotes,
    isGenerating, canvases, run, reads, nextId, lastAlert, glyph,
    localStorage, isInitialLoad, download, fileInputs>>

changeCase(i) ==
  /\ i \in 1..Len(variant)
  /\ variant[i] \in LowerCase \cup UpperCase
  /\ variant' = [variant EXCEPT ![i] =
                   IF @ \in LowerCase THEN toUpperCaseChar(@)
                   ELSE toLowerCaseChar(@)]
  /\ normalized' = << >>
  /\ UNCHANGED <<word, pageVars>>

insertIgnored(i, c) ==
  /\ i \in 0..Len(variant)
  /\ Len(variant) <= MaxWordLen
  /\ variant' = SubSeq(variant, 1, i) \o <<c>> \o SubSeq(variant, i + 1, Len(variant))
  /\ normalized' = << >>
  /\ UNCHANGED <<word, pageVars>>

deleteIgnored(i) ==
  /\ i \in 1..Len(variant)
  /\ variant[i] \notin WordChars
  /\ variant' = SubSeq(variant, 1, i - 1) \o SubSeq(variant, i + 1, Len(variant))
  /\ normalized' = << >>
  /\ UNCHANGED <<word, pageVars>>

\* normalizeWord is applied to both spellings
normalizeBoth ==
  /\ normalized = << >>
  /\ localStorage = EmptyStorage
  /\ isInitialLoad = FALSE
  /\ download = IdleDownload
  /\ fileInputs = NoFiles
  /\ normalized' = <<normalizeWord(word), normalizeWord(variant)>>
  /\ UNCHANGED <<word, variant, pageVars>>

NextNormalize ==
  \/ \E i \in 1..Len(variant) : changeCase(i)
  \/ \E i \in 0..Len(variant), c \in IgnoredChars : insertIgnored(i, c)
  \/ \E i \in 1..Len(variant) : deleteIgnored(i)
  \/ normalizeBoth

SpecNormalize == InitNormalize /\ [][NextNormalize]_vars

\* ------------------------------------------------------------ claims
DrawnCover(i) ==
  /\ canvases[i].drawn
  /\ ~IsDefined(generatedQuotes[i].cropData)
  /\ generatedQuotes[i].image.width > 0
  /\ generatedQuotes[i].image.height > 0

\* C1: for every image with positive width and height and no cropData, the
\* fallback cover crop ends with drawWidth >= 1080 and drawHeight >= 1350.
C1_CoverFillsCanvas ==
  \A i \in 1..Len(canvases) :
    DrawnCover(i) =>
      /\ canvases[i].background.mode = "cover"
      /\ RLeq(RInt(1080), canvases[i].background.drawWidth)
      /\ RLeq(RInt(1350), canvases[i].background.drawHeight)

\* a wide and a tall image drawn with the cover crop: one side overflows the canvas
C1_Witness ==
  \E i \in 1..Len(canvases) :
    /\ DrawnCover(i)
    /\ generatedQuotes[i].image.width > 2 * generatedQuotes[i].image.height
    /\ RLess(RInt(1080), canvases[i].background.drawWidth)

\* C2 as stated: the centring offset (offsetX, offsetY) of the cover crop is
\* non-negative.
C2_OffsetNonNegative ==
  \A i \in 1..Len(canvases) :
    DrawnCover(i) =>
      /\ RLeq(RInt(0), canvases[i].background.offsetX)
      /\ RLeq(RInt(0), canvases[i].background.offsetY)

\* C2 amended: for every image with positive width and height and no
\* cropData, the centring offset (offsetX, offsetY) of the cover crop is
\* non-positive: the scaled image starts at or before the canvas origin.
C2_OffsetNonPositive ==
  \A i \in 1..Len(canvases) :
    DrawnCover(i) =>
      LET b == canvases[i].background
      IN /\ RLeq(b.offsetX, RInt(0))
         /\ RLeq(b.offsetY, RInt(0))

\* a wide image: the offset to the left is strictly negative
C2_Witness ==
  \E i \in 1..Len(canvases) :
    /\ DrawnCover(i)
    /\ RLess(canvases[i].background.offsetX, RInt(0))
    /\ REq(canvases[i].background.offsetY, RInt(0))

\* the words drawn on canvas i, line after line: each line split on white space
RECURSIVE WordsOfLines(_)
WordsOfLines(lines) ==
  IF lines = << >> THEN << >>
  ELSE splitOnWhiteSpace(Head(lines)) \o WordsOfLines(Tail(lines))

NonEmpty(s) == s # << >>

\* C3 as stated: the lines of the wrap loop, split on white space and
\* concatenated in line order, are the non-empty space-separated words of the
\* upper-cased text.
C3_WordsAreSpaceSeparatedWords ==
  \A i \in 1..Len(canvases) :
    canvases[i].drawn =>
      WordsOfLines(canvases[i].lines)
        = SelectSeq(splitOnSpace(toUpperCase(generatedQuotes[i].text)), NonEmpty)

\* C3 amended: the lines of the wrap loop, split on white space and
\* concatenated in line order, are the non-empty white-space-separated words
\* of the upper-cased text (a line break or a tab in the text separates two
\* words as a space does): no word is dropped, duplicated or reordered.
C3_WordsAreWhiteSpaceSeparatedWords ==
  \A i \in 1..Len(canvases) :
    canvases[i].drawn =>
      WordsOfLines(canvases[i].lines)
        = splitOnWhiteSpace(toUpperCase(generatedQuotes[i].text))

\* a text with a repeated space that wraps into two lines or more
C3_Witness ==
  \E i \in 1..Len(canvases) :
    /\ canvases[i].drawn
    /\ Len(canvases[i].lines) >= 2
    /\ Len(WordsOfLines(canvases[i].lines)) >= 2
    /\ \E k \in 1..(Len(generatedQuotes[i].text) - 1) :
         generatedQuotes[i].text[k] = " " /\ generatedQuotes[i].text[k + 1] = " "

HighlightMatches(lineWord, highlightedWord) ==
  /\ normalizeWord(lineWord) # << >>
  /\ normalizeWord(highlightedWord) # << >>
  /\ normalizeWord(lineWord) = normalizeWord(highlightedWord)

\* C4: a rendered word is drawn in the highlight colour if and only if its
\* normalized form and that of the quote's highlightedWord are both non-empty
\* and equal; every other word is drawn white; an empty or white-space-only
\* highlightedWord highlights no word.
C4_HighlightIffNormalizedEqual ==
  \A i \in 1..Len(canvases) :
    canvases[i].drawn =>
      /\ \A k \in 1..Len(canvases[i].words) :
           LET w == canvases[i].words[k]
           IN /\ w.fillStyle \in {highlightColor, White}
              /\ w.fillStyle = highlightColor
                   <=> HighlightMatches(w.word, generatedQuotes[i].highlightedWord)
      /\ trim(generatedQuotes[i].highlightedWord) = << >>
           => \A k \in 1..Len(canvases[i].words) :
                canvases[i].words[k].fillStyle = White

\* a quote with a punctuated word that is highlighted next to one that is not,
\* the highlighted word given in another case
C4_Witness ==
  \E i \in 1..Len(canvases) :
    /\ canvases[i].drawn
    /\ \E k, m \in 1..Len(canvases[i].words) :
         /\ canvases[i].words[k].fillStyle = highlightColor
         /\ canvases[i].words[k].word # generatedQuotes[i].highlightedWord
         /\ canvases[i].words[m].fillStyle = White

\* C5: normalizeWord gives the same result for two words that differ only in
\* letter case, surrounding white space and characters that are not letters,
\* digits or underscore.
C5_NormalizeIgnoresCaseAndPunctuation ==
  normalized # << >> => normalized[1] = normalized[2]

\* two spellings that differ in case and in punctuation, normalized to a non-empty word
C5_Witness ==
  /\ normalized # << >>
  /\ normalized[1] # << >>
  /\ \E k \in 1..Len(variant) : variant[k] \in IgnoredChars
  /\ \E k \in 1..Len(variant) : variant[k] \in LowerCase \cup UpperCase
  /\ SelectSeq(variant, IsWordChar) # SelectSeq(word, IsWordChar)

\* C6: for gradientStart g in [0,1] the gradient has three stops added in
\* order at offsets 0, g, 1, which are non-decreasing; for textPosition bottom
\* the alphas are 0, 0, 0.85 and for top they are 0.85, 0, 0.
C6_GradientStops ==
  \A i \in 1..Len(canvases) :
    canvases[i].drawn =>
      LET q == generatedQuotes[i]
          g == IF IsDefined(q.gradientStart) THEN q.gradientStart[1] ELSE 50
          st == canvases[i].stops
      IN (0 <= g /\ g <= 100) =>
           /\ Len(st) = 3
           /\ <<st[1].offset, st[2].offset, st[3].offset>> = <<0, g, 100>>
           /\ st[1].offset <= st[2].offset /\ st[2].offset <= st[3].offset
           /\ q.textPosition = "bottom" =>
                <<st[1].alpha, st[2].alpha, st[3].alpha>> = <<0, 0, 85>>
           /\ q.textPosition = "top" =>
                <<st[1].alpha, st[2].alpha, st[3].alpha>> = <<85, 0, 0>>

\* a top quote with its own gradient start, drawn
C6_Witness ==
  \E i \in 1..Len(canvases) :
    /\ canvases[i].drawn
    /\ generatedQuotes[i].textPosition = "top"
    /\ generatedQuotes[i].gradientStart = Some(30)
    /\ canvases[i].stops[2].offset = 30

\* C10 as stated: for empty quote text the layout yields zero lines, and the
\* opening quotation mark and the caption are still drawn.
C10_EmptyTextZeroLines ==
  \A i \in 1..Len(canvases) :
    (canvases[i].drawn /\ generatedQuotes[i].text = << >>) =>
      /\ Len(canvases[i].lines) = 0
      /\ canvases[i].quoteMark
      /\ IsDefined(canvases[i].caption)

\* C10 amended: for empty quote text the layout yields exactly one line, which
\* is empty, so no word is drawn; the opening quotation mark and the caption
\* are still drawn.
C10_EmptyTextOneEmptyLine ==
  \A i \in 1..Len(canvases) :
    (canvases[i].drawn /\ generatedQuotes[i].text = << >>) =>
      /\ canvases[i].lines = << << >> >>
      /\ canvases[i].words = << >>
      /\ canvases[i].quoteMark
      /\ IsDefined(canvases[i].caption)

\* the empty text, drawn
C10_Witness ==
  \E i \in 1..Len(canvases) :
    /\ canvases[i].drawn
    /\ generatedQuotes[i].text = << >>
    /\ canvases[i].quoteMark

\* the positions k of the valid inputs of the run whose image has loaded
LoadedPositions ==
  SelectSeq([k \in 1..Len(run.loaded) |-> k], LAMBDA k : run.loaded[k])

\* the number of images loaded among the first k valid inputs of the run
LoadedUpTo(k) == Cardinality({m \in 1..k : run.loaded[m]})

\* C7: if crop detection fails for an image that loaded, processQuoteInput
\* still resolves with a GeneratedQuote without cropData, the quote appears in
\* generatedQuotes, and it is drawn with the computed cover crop.
C7_CropFailureFallsBack ==
  \A k \in 1..Len(run.cropped) :
    (run.loaded[k] /\ ~run.cropped[k]) =>
      LET j == LoadedUpTo(k)
          input == run.validInputs[k]
      IN /\ j <= Len(run.newGeneratedQuotes)
         /\ run.newGeneratedQuotes[j].id = input.id
         /\ run.newGeneratedQuotes[j].text = input.text
         /\ ~IsDefined(run.newGeneratedQuotes[j].cropData)
         /\ run.pc = "done" =>
              /\ j <= Len(generatedQuotes)
              /\ generatedQuotes[j] = run.newGeneratedQuotes[j]
              /\ canvases[j].drawn
              /\ canvases[j].background.mode = "cover"
              /\ RLeq(RInt(1080), canvases[j].background.drawWidth)
              /\ RLeq(RInt(1350), canvases[j].background.drawHeight)

\* a finished run in which one crop detection failed and another succeeded
C7_Witness ==
  /\ run.pc = "done"
  /\ \E k \in 1..Len(run.cropped) : run.loaded[k] /\ ~run.cropped[k]
  /\ \E j \in 1..Len(canvases) : canvases[j].background.mode = "cover"
  /\ \E j \in 1..Len(canvases) : canvases[j].background.mode = "smartcrop"

\* C8: if the image of one valid input fails to load during generateAllQuotes,
\* that input alone is omitted: every other valid input whose image loads
\* appears in generatedQuotes exactly once, in the order of the inputs.
C8_LoadFailureOmitsOnlyThatInput ==
  run.pc = "done" =>
    /\ Len(run.loaded) = Len(run.validInputs)
    /\ Len(generatedQuotes) = Len(LoadedPositions)
    /\ \A j \in 1..Len(LoadedPositions) :
         /\ generatedQuotes[j].id = run.validInputs[LoadedPositions[j]].id
         /\ generatedQuotes[j].text = run.validInputs[LoadedPositions[j]].text
         /\ generatedQuotes[j].imageUrl = run.validInputs[LoadedPositions[j]].imageUrl
    /\ \A j, m \in 1..Len(generatedQuotes) :
         generatedQuotes[j].id = generatedQuotes[m].id => j = m

\* a finished run of two valid inputs or more, the first image failed, a later one loaded
C8_Witness ==
  /\ run.pc = "done"
  /\ Len(run.validInputs) >= 2
  /\ ~run.loaded[1]
  /\ \E k \in 2..Len(run.loaded) : run.loaded[k]
  /\ Len(generatedQuotes) = Len(run.validInputs) - 1

HasTextAndImage(q) == q.text # << >> /\ q.imageUrl # Null

\* C9: generateAllQuotes generates only quote inputs that have both non-empty
\* text and an image; when no input qualifies it leaves generatedQuotes and
\* isGenerating unchanged.
C9_OnlyValidInputsGenerated ==
  [][ /\ \A k \in 1..Len(run'.validInputs) : HasTextAndImage(run'.validInputs[k])
      /\ \A j \in 1..Len(generatedQuotes') : HasTextAndImage(generatedQuotes'[j])
      /\ (run'.pc = "loading" /\ run.pc \in {"idle", "done"}) =>
           run'.validInputs = SelectSeq(quoteInputs, HasTextAndImage)
      /\ (lastAlert' = NoValidInputAlert
            /\ \A i \in 1..Len(quoteInputs) : ~HasTextAndImage(quoteInputs[i])) =>
           /\ generatedQuotes' = generatedQuotes
           /\ isGenerating' = isGenerating
           /\ run' = run ]_vars

\* the alert of generateAllQuotes, shown while earlier results are on the page
C9_Witness ==
  /\ lastAlert = NoValidInputAlert
  /\ generatedQuotes # << >>
  /\ ~isGenerating
  /\ \E i \in 1..Len(quoteInputs) : quoteInputs[i].text # << >> /\ quoteInputs[i].imageUrl = Null

\* the space-separated words the wrap loop iterates over, for generated quote i
TokensOf(i) == splitOnSpace(toUpperCase(generatedQuotes[i].text))

\* C11: a space-separated word whose measured width alone exceeds maxWidth
\* is emitted whole as a line of its own: at each of its occurrences in the
\* text there is a line that is that word (trimmed, as every line is), and
\* the lines before it hold exactly the words of the text before it.
C11_OverlongWordAloneOnLine ==
  \A i \in 1..Len(canvases) :
    canvases[i].drawn =>
      LET tokens == TokensOf(i)
          lines == canvases[i].lines
      IN \A k \in 1..Len(tokens) :
           measureText(tokens[k], glyph) > maxWidth =>
             \E j \in 1..Len(lines) :
               /\ lines[j] = trim(tokens[k])
               /\ WordsOfLines(SubSeq(lines, 1, j - 1))
                    = WordsOfLines(SubSeq(tokens, 1, k - 1))

\* a drawn text with an overlong word next to a word that fits
C11_Witness ==
  \E i \in 1..Len(canvases) :
    /\ canvases[i].drawn
    /\ \E k, m \in 1..Len(TokensOf(i)) :
         /\ measureText(TokensOf(i)[k], glyph) > maxWidth
         /\ trim(TokensOf(i)[k]) = TokensOf(i)[k]
         /\ TokensOf(i)[m] # << >>
         /\ measureText(TokensOf(i)[m], glyph) <= maxWidth

\* the words of tokens, each followed by one space, as the wrap loop joins them
RECURSIVE JoinWithTrailingSpaces(_)
JoinWithTrailingSpaces(tokens) ==
  IF tokens = << >> THEN << >>
  ELSE Head(tokens) \o <<" ">> \o JoinWithTrailingSpaces(Tail(tokens))

\* the index of the word that starts the line word k - 1 is on, when new
\* lines start at word 1 and at the words in cuts
LineStartBefore(cuts, k) ==
  CHOOSE s \in {1} \cup {c \in cuts : c <= k - 1} :
    \A c \in {1} \cup {c \in cuts : c <= k - 1} : c <= s

\* the buffer of the wrap loop when it reaches word k (k = Len(tokens) + 1:
\* when the loop ends)
BufferBefore(tokens, cuts, k) ==
  JoinWithTrailingSpaces(SubSeq(tokens, LineStartBefore(cuts, k), k - 1))

\* lines are the trimmed buffers of the lines that start at 1 and at cuts
LinesAreBuffersOf(lines, tokens, cuts) ==
  LET starts == {1} \cup cuts
      ends == {c - 1 : c \in cuts} \cup {Len(tokens)}
  IN /\ Len(lines) = Cardinality(starts)
     /\ \A e \in ends :
          lines[Cardinality({x \in ends : x <= e})]
            = trim(BufferBefore(tokens, cuts, e + 1))

\* the first space-separated word of a line
FirstWord(line) == Head(splitOnSpace(line))

\* texts whose words are separated by single spaces and hold no other white space
SingleSpaced(tokens) ==
  \A k \in 1..Len(tokens) :
    tokens[k] # << >> /\ \A n \in 1..Len(tokens[k]) : tokens[k][n] \notin WhiteSpace

\* C18 as stated: for any two consecutive lines, the earlier line followed by
\* a space, the first word of the later line and a trailing space is wider
\* than maxWidth.
C18_ConsecutiveLinesOverflow ==
  \A i \in 1..Len(canvases) :
    canvases[i].drawn =>
      \A j \in 1..(Len(canvases[i].lines) - 1) :
        measureText(canvases[i].lines[j] \o <<" ">>
                      \o FirstWord(canvases[i].lines[j + 1]) \o <<" ">>, glyph)
          > maxWidth

\* C18 amended: the lines are the trimmed buffers of the greedy rule, which
\* starts a new line at a word (after the first) if and only if the buffer
\* followed by the word and a trailing space is wider than maxWidth; the
\* width that forces a break is that of the untrimmed buffer, and it is the
\* width of the earlier line followed by a space when the words of the text
\* are separated by single spaces.
C18_BreaksAreForcedOnes ==
  \A i \in 1..Len(canvases) :
    canvases[i].drawn =>
      LET tokens == TokensOf(i)
          lines == canvases[i].lines
      IN /\ \E cuts \in SUBSET (2..Len(tokens)) :
              /\ \A k \in 2..Len(tokens) :
                   k \in cuts <=>
                     measureText(BufferBefore(tokens, cuts, k) \o tokens[k] \o <<" ">>,
                                 glyph) > maxWidth
              /\ LinesAreBuffersOf(lines, tokens, cuts)
         /\ SingleSpaced(tokens) =>
              \A j \in 1..(Len(lines) - 1) :
                measureText(lines[j] \o <<" ">> \o FirstWord(lines[j + 1]) \o <<" ">>,
                            glyph) > maxWidth

\* a drawn text of single-spaced words with a forced break and with a line
\* of two words that fit
C18_Witness ==
  \E i \in 1..Len(canvases) :
    /\ canvases[i].drawn
    /\ SingleSpaced(TokensOf(i))
    /\ Len(TokensOf(i)) >= 2
    /\ Len(canvases[i].lines) >= 2
    /\ \E j \in 1..Len(canvases[i].lines) :
         Len(splitOnSpace(canvases[i].lines[j])) >= 2

\* the fillText calls of canvas i for the words of line j
WordsOnLine(i, j) == SelectSeq(canvases[i].words, LAMBDA w : w.line = j)

\* the left edge of the first word of a line plus the right edge of its last
\* word: twice the centre of the drawn extent
ExtentEdgesSum(lineWords) ==
  RAdd(lineWords[1].x,
       RAdd(lineWords[Len(lineWords)].x, RInt(lineWords[Len(lineWords)].width)))

\* no two white-space characters follow each other in the line
SingleWhiteSpace(line) ==
  \A n \in 1..(Len(line) - 1) :
    ~(line[n] \in WhiteSpace /\ line[n + 1] \in WhiteSpace)

\* the width of the white space of a line beyond one space between words
ExtraWhiteSpace(line, glyph_) ==
  measureText(SelectSeq(line, LAMBDA c : c \in WhiteSpace), glyph_)
    - (Len(splitOnWhiteSpace(line)) - 1) * measureText(<<" ">>, glyph_)

C15_MiddleStopOffsetClamped ==
  \A i \in 1..Len(canvases) :
    (canvases[i].drawn /\ Len(canvases[i].stops) >= 2) =>
      (0 <= canvases[i].stops[2].offset /\ canvases[i].stops[2].offset <= 100)

Settled(q, r) ==
  \E m \in 1..Len(r.cropped) :
    /\ m <= Len(r.loaded)
    /\ r.validInputs[m].id = q.id
    /\ r.loaded[m]
    /\ IsDefined(q.cropData) <=> r.cropped[m]

\* C20: whenever the canvases of a batch are drawn, every quote drawn is one
\* whose image load and whose crop detection have both ended (the detection
\* succeeded or failed); no step draws a quote whose detection is pending.
C20_DrawnOnlyAfterLoadAndCrop ==
  [][canvases' # canvases =>
       \A i \in 1..Len(canvases') :
         canvases'[i].drawn => Settled(generatedQuotes'[i], run')]_vars

\* a batch of two quotes drawn, one with crop data and one whose detection failed
C20_Witness ==
  /\ run.pc = "done"
  /\ Len(canvases) = 2
  /\ \A i \in 1..2 : canvases[i].drawn /\ Settled(generatedQuotes[i], run)
  /\ \E i, j \in 1..2 :
       /\ generatedQuotes[i].cropData # Undefined
       /\ generatedQuotes[j].cropData = Undefined

C14_FontSizesInRange ==
  /\ 40 <= fontSize /\ fontSize <= 120
  /\ \A i \in 1..Len(quoteInputs) :
       quoteInputs[i].fontSize # Undefined =>
         (40 <= quoteInputs[i].fontSize[1] /\ quoteInputs[i].fontSize[1] <= 120)

\* the page reloaded with the sizes at both ends of the range: the global
\* size 40 and the stored quote input with its own size 120
C14_Witness ==
  /\ isInitialLoad
  /\ fontSize = 40
  /\ localStorage.fontSize = Some(<<"4", "0">>)
  /\ localStorage.quoteInputs # Undefined
  /\ quoteInputs[1].fontSize = Some(120)

\* the timers of the last "Download All" have fired and the blobs are delivered
DownloadsSettled ==
  /\ download.scheduled # << >>
  /\ download.timers = << >>
  /\ download.blobs = {}

\* the generated quotes of the last "Download All" are still on the page
StillMounted ==
  download.scheduled = [i \in 1..Len(generatedQuotes) |-> generatedQuotes[i].id]

\* C17 as stated: one "Download All" triggers exactly one download per
\* generated quote, in increasing index order, the one for the quote at
\* index i named quote-(i+1).png.
C17_OneDownloadPerQuoteInOrder ==
  DownloadsSettled =>
    download.files
      = [i \in 1..Len(download.scheduled) |-> "quote-" \o ToString(i) \o ".png"]

\* C17 amended: one "Download All" calls downloadImage once per generated
\* quote, in increasing index order; a download is triggered at most once
\* per quote, only for a quote whose timer has fired, and is named
\* quote-(i+1).png for the quote at index i; when the quotes stay on the
\* page there is exactly one download per quote once the timers have fired
\* and the blobs are delivered.
C17_OneDownloadPerMountedQuote ==
  /\ download.called = [k \in 1..Len(download.called) |-> k - 1]
  /\ Len(download.called) + Len(download.timers) = Len(download.scheduled)
  /\ \A m, n \in 1..Len(download.files) :
       download.files[m] = download.files[n] => m = n
  /\ \A m \in 1..Len(download.files) :
       \E k \in 1..Len(download.called) :
         download.files[m] = "quote-" \o ToString(k) \o ".png"
  /\ (DownloadsSettled /\ StillMounted) =>
       {download.files[m] : m \in 1..Len(download.files)}
         = {"quote-" \o ToString(i) \o ".png" : i \in 1..Len(download.scheduled)}

\* three quotes on the page, each downloaded once, in index order
C17_Witness ==
  /\ DownloadsSettled
  /\ StillMounted
  /\ download.files = <<"quote-1.png", "quote-2.png", "quote-3.png">>

\* C22: for every image with positive dimensions and no cropData, the first
\* fit of the cover crop already covers the canvas (drawWidth >= 1080 and
\* drawHeight >= 1350), so neither guard branch runs, and never both.
C22_GuardBranchesNeverFire ==
  \A i \in 1..Len(canvases) :
    DrawnCover(i) =>
      LET b == canvases[i].background
      IN /\ ~b.guardWidth
         /\ ~b.guardHeight
         /\ ~RLess(b.drawWidth, RInt(CanvasWidth))
         /\ ~RLess(b.drawHeight, RInt(CanvasHeight))

\* a tall image drawn with the cover crop: fitted to the canvas width by the
\* first fit, its height overflows
C22_Witness ==
  \E i \in 1..Len(canvases) :
    /\ DrawnCover(i)
    /\ generatedQuotes[i].image.height > 2 * generatedQuotes[i].image.width
    /\ REq(canvases[i].background.drawWidth, RInt(CanvasWidth))
    /\ RLess(RInt(CanvasHeight), canvases[i].background.drawHeight)
    /\ ~canvases[i].background.guardWidth
    /\ ~canvases[i].background.guardHeight

HasInk(text) == \E k \in 1..Len(text) : text[k] \notin WhiteSpace

\* C24 as stated: for every quote text with at least one character that is
\* not white space, no line of the wrap loop is empty, whatever leading or
\* repeated spaces the text has.
C24_NoLineEmpty ==
  \A i \in 1..Len(canvases) :
    (canvases[i].drawn /\ HasInk(generatedQuotes[i].text)) =>
      \A j \in 1..Len(canvases[i].lines) : canvases[i].lines[j] # << >>

\* the space-separated words of a line that are not empty
WordsOf(line) == SelectSeq(splitOnSpace(line), NonEmpty)

\* C25: every line of the wrap loop with two or more space-separated words
\* measures, followed by one space, at most 900px; only a line of a single
\* word may be wider.
C25_MultiWordLinesFit ==
  \A i \in 1..Len(canvases) :
    canvases[i].drawn =>
      \A j \in 1..Len(canvases[i].lines) :
        Len(WordsOf(canvases[i].lines[j])) >= 2 =>
          measureText(canvases[i].lines[j] \o <<" ">>, glyph) <= 900

\* a text wrapped into two lines or more, one of them two words that fill
\* the 900px exactly
C25_Witness ==
  \E i \in 1..Len(canvases) :
    /\ canvases[i].drawn
    /\ Len(canvases[i].lines) >= 2
    /\ \E j \in 1..Len(canvases[i].lines) :
         /\ Len(WordsOf(canvases[i].lines[j])) >= 2
         /\ measureText(canvases[i].lines[j] \o <<" ">>, glyph) = 900

\* the y of every word drawn on canvas i is inside the canvas and above the
\* y of the caption
LinesInsideAboveCaption(i) ==
  \A k \in 1..Len(canvases[i].words) :
    LET y == canvases[i].words[k].y
    IN /\ RLeq(RInt(0), y)
       /\ RLeq(y, RInt(1350))
       /\ RLess(y, RInt(canvases[i].caption[1].y))

\* C26 as stated: for every font size in [40,120], either text position and
\* any number of lines n >= 1, the vertical centre of every body line lies
\* inside the canvas (0 <= y <= 1350) and above the caption (1350 - 100).
C26_LinesInsideCanvas ==
  \A i \in 1..Len(canvases) :
    (canvases[i].drawn /\ Len(canvases[i].lines) >= 1
       /\ canvases[i].fontSizePx \in 40..120) =>
      LinesInsideAboveCaption(i)

\* C26 amended: for every font size in [40,120] and n >= 1 lines, the
\* vertical centres of all body lines lie inside the canvas and above the
\* caption exactly when the block fits: at the bottom when
\* n * lineHeight <= 1150, at the top when (n - 1/2) * lineHeight < 1050,
\* with lineHeight = 1.3 * font size.
C26_LinesInsideCanvasIffBlockFits ==
  \A i \in 1..Len(canvases) :
    (canvases[i].drawn /\ Len(canvases[i].lines) >= 1
       /\ canvases[i].fontSizePx \in 40..120) =>
      LET n == Len(canvases[i].lines)
          height == R(13 * canvases[i].fontSizePx, 10)
          fits ==
            IF generatedQuotes[i].textPosition = "top"
            THEN RLess(RMul(R(2 * n - 1, 2), height), RInt(1050))
            ELSE RLeq(RMul(RInt(n), height), RInt(1150))
      IN /\ Len(canvases[i].words) = n
         /\ fits <=> LinesInsideAboveCaption(i)

\* seven lines at 120px, the most that fit at that size: all inside, the
\* last one close to the caption (top) or the first one close to the top
\* edge (bottom)
C26_Witness ==
  \E i \in 1..Len(canvases) :
    /\ canvases[i].drawn
    /\ canvases[i].fontSizePx = 120
    /\ Len(canvases[i].lines) = 7
    /\ LinesInsideAboveCaption(i)
    /\ \E k \in 1..Len(canvases[i].words) :
         RLess(RInt(1000), canvases[i].words[k].y)
            \/ RLess(canvases[i].words[k].y, RInt(100))

\* C23: the list of quote inputs is never empty, whatever sequence of add,
\* remove, update, load from localStorage and clear-all led to it.
C23_QuoteInputsNeverEmpty == Len(quoteInputs) >= 1

\* the page loaded again after the first quote input was removed or cleared
\* away: the one input left is the stored one, not the one of useState
C23_Witness ==
  /\ isInitialLoad
  /\ Len(quoteInputs) = 1
  /\ quoteInputs[1].id # "1"
  /\ IsDefined(localStorage.quoteInputs)
  /\ JSONparse(localStorage.quoteInputs[1]) = quoteInputs

\* C29 as stated: whenever the page is reloaded, the quoteInputs after the
\* mount effect are the quoteInputs just before the reload, also when the
\* last change was made in the 100ms after a mount.
C29_ReloadRestoresQuoteInputs ==
  [][reload => quoteInputs' = quoteInputs]_vars

\* C27 as stated: after a confirmed clearAllAndStartNew, generatedQuotes is
\* empty and stays empty until the user next starts generateAllQuotes (here:
\* as long as the confirmed clear-all is the last thing the user did), also
\* when a generateAllQuotes run was in flight at the time of the clear.
C27_ClearedStaysEmpty ==
  lastAlert = ClearConfirm => generatedQuotes = << >>

\* C30: every generateAllQuotes run that starts with at least one valid
\* input eventually stores its quotes in generatedQuotes and sets
\* isGenerating back to false, whichever loads and crops fail, provided
\* every load fires onload or onerror and every crop call settles.
C30_RunEventuallyEnds ==
  (isGenerating /\ run.pc \in {"loading", "cropping"})
    ~> (~isGenerating /\ run.pc = "done"
          /\ generatedQuotes = run.newGeneratedQuotes)

\* a run over two valid inputs has ended: the image of one failed to load,
\* the quote of the other is on the page
C30_Witness ==
  /\ ~isGenerating
  /\ run.pc = "done"
  /\ Len(run.validInputs) = 2
  /\ \E k \in 1..Len(run.loaded) : ~run.loaded[k]
  /\ Len(generatedQuotes) = 1

\* C21: for a HEIC/HEIF file the conversion by /api/convert is attempted
\* only after the conversion in the browser has failed (an upload comes to
\* await the server only from awaiting heic2any, with the message of the
\* failure), and when the server conversion fails too the upload is
\* abandoned with the imageUrl of the quote input (all quote inputs) unchanged.
C21_ServerOnlyAfterClientFailure ==
  [][/\ \A u \in reads' \ reads :
          u.pc = "server" =>
            /\ u.message # << >>
            /\ \E v \in reads \ reads' :
                 /\ v.pc = "client"
                 /\ v.quoteId = u.quoteId
                 /\ v.file = u.file
     /\ \A u \in reads :
          (u.pc = "server" /\ reads' = reads \ {u}) =>
            /\ quoteInputs' = quoteInputs
            /\ lastAlert' = "Failed to convert HEIC image."]_vars

\* a HEIC file was selected for an input without an image, both conversions
\* failed, and the input is still without an image
C21_Witness ==
  /\ reads = {}
  /\ lastAlert = "Failed to convert HEIC image."
  /\ \E i \in 1..Len(quoteInputs) :
       /\ quoteInputs[i].id \in DOMAIN fileInputs
       /\ fileInputs[quoteInputs[i].id].type = ""
       /\ quoteInputs[i].imageUrl = "null"

\* C28 as stated: when files were selected one after the other for the same
\* quote input and all its uploads have finished, the imageUrl of the input
\* is that of the file selected last (here: when that file needs no
\* conversion, so that its upload cannot have been abandoned).
C28_LastSelectedFileWins ==
  \A i \in 1..Len(quoteInputs) :
    LET id == quoteInputs[i].id
    IN (/\ id \in DOMAIN fileInputs
        /\ fileInputs[id].type = "image/jpeg"
        /\ ~\E u \in reads : u.quoteId = id) =>
         quoteInputs[i].imageUrl = "data:file:" \o fileInputs[id].content

====
